---- MODULE Spec2Model ----
(***************************************************************************)
(* A model of hft-gateway: the length-prefixed frame codec                 *)
(* (MessageBuffer), the inter-thread MessageQueue, the server accept /     *)
(* receive threads and the client receive thread, with the main thread's   *)
(* registry operations.                                                    *)
(*                                                                         *)
(* Byte strings (std::string, the socket byte stream) are kept run-length  *)
(* encoded: a sequence of runs <<b, n>>, n >= 1 copies of byte b, adjacent *)
(* runs holding different bytes.  The encoding is one-to-one with byte     *)
(* strings, so a 1 MiB payload is a value TLC can hold.                    *)
(***************************************************************************)
EXTENDS Integers, Sequences, FiniteSets, TLC

VARIABLES
    mb,          \* the MessageBuffer under test: [buffer_, readPos_]
    refbuf,      \* the reference MessageBuffer (no cursor): its buffer_
    wire,        \* bytes framed by the sender and not yet handed to addData
    sent,        \* payloads of the well-formed frames put on the wire, in order
    delivered,   \* payloads returned by the successful extractMessage calls
    wellFormed,  \* FALSE once bytes that are no well-formed frame were put on the wire
    adds,        \* number of addData calls so far
    last,        \* the last codec call: its kind, results and what it saw
    sp,          \* the send path: the current sendFramedMessage / sendToClient /
                 \* sendToServer call, its descriptor's state and what the
                 \* transport accepted (history)
    \* ---- MessageQueue, used on its own (SpecQueue)
    messages_,   \* MessageQueue::messages_
    mutex_,      \* MessageQueue::mutex_: the thread holding it, or "free"
    qpc,         \* per thread: "idle", or the call whose critical section it is in
    pushed,      \* per producer: how many entries it has pushed
    pushOrder,   \* every entry pushed, in the order the pushes took effect
    popped,      \* every entry returned by a successful pop, in order
    popOut,      \* the consumer's last pop: return value and out-parameters
    clears,      \* number of clear calls so far
    \* ---- connections, threads and the main loop (messages_ is the global
    \* ---- receivedMessages there, pushOrder its history)
    conn,                 \* the ClientConnection objects ever created
    serverSocket,         \* main's serverSocket: "null", or set with its
                          \* descriptor "open" or "closed"
    serverAcceptRunning,  \* std::atomic<bool> serverAcceptRunning
    nextClientId,         \* std::atomic<int> nextClientId
    serverClients,        \* the server registry (objects, in insertion order)
    serverClientsMutex,   \* its lock: "free", "main" or "accept"
    apc,                  \* where the accept thread is
    aconn,                \* the accept thread's local clientConn (0: none)
    backlog,              \* connection attempts the listener has queued
    attempts,             \* connection attempts peers have made so far
    mpc,                  \* where the main thread is
    aborted,              \* std::terminate was called
    acc,                  \* what the accept thread's last pass did (history)
    \* ---- the client side of main
    clientConnections,        \* the client registry (objects, in order)
    nextClientConnectionId,   \* main's nextClientConnectionId
    pendingClientSocket,      \* "null" or "set"
    pendingConnectionId,      \* main's pendingConnectionId
    pendingConnectSuccess,    \* bool pendingConnectSuccess
    connectComplete,          \* std::atomic<bool> connectComplete
    clientConnectRunning,     \* std::atomic<bool> clientConnectRunning
    cpc,                      \* clientConnectThreadHandle: "none" (not
                              \* joinable), "finished", or where the running
                              \* connect thread is: "run", "wait", "poll",
                              \* "publish" (between the two stores)
    ct,                       \* the connect thread's argument and locals,
                              \* and what it has written so far (history)
    toDisconnect,             \* option 6: the objects picked (a set)
    stopAll,                  \* option 6: "Disconnect all" was picked
    selectedClient            \* option 4: the object picked (0: none)

codecVars ==
    <<mb, refbuf, wire, sent, delivered, wellFormed, adds, last, sp>>

queueVars ==
    <<messages_, mutex_, qpc, pushed, pushOrder, popped, popOut, clears>>

netVars ==
    <<conn, serverSocket, serverAcceptRunning, nextClientId, serverClients,
      serverClientsMutex, apc, aconn, backlog, attempts, mpc, aborted, acc>>

clientVars ==
    <<clientConnections, nextClientConnectionId, pendingClientSocket,
      pendingConnectionId, pendingConnectSuccess, connectComplete,
      clientConnectRunning, cpc, ct, toDisconnect, stopAll, selectedClient>>

vars == <<codecVars, queueVars, netVars, clientVars>>

(***************************************************************************)
(* Byte strings                                                            *)
(***************************************************************************)
Empty == <<>>

\* n copies of byte b
Fill(b, n) == IF n = 0 THEN Empty ELSE << <<b, n>> >>

RECURSIVE BLen(_)
\* std::string::size (a string of many runs is summed by halves, which keeps
\* the evaluation shallow)
BLen(s) ==
    IF s = <<>> THEN 0
    ELSE IF Len(s) <= 16 THEN s[1][2] + BLen(Tail(s))
    ELSE LET h == Len(s) \div 2
         IN  BLen(SubSeq(s, 1, h)) + BLen(SubSeq(s, h + 1, Len(s)))

\* std::string::append
BCat(s, t) ==
    IF s = <<>> THEN t
    ELSE IF t = <<>> THEN s
    ELSE IF s[Len(s)][1] = t[1][1]
         THEN SubSeq(s, 1, Len(s) - 1)
              \o << <<t[1][1], s[Len(s)][2] + t[1][2]>> >> \o Tail(t)
         ELSE s \o t

RECURSIVE BDrop(_, _)
\* std::string::erase(0, k): the string without its first k bytes
BDrop(s, k) ==
    IF k <= 0 \/ s = <<>> THEN s
    ELSE IF Len(s) <= 16
    THEN IF s[1][2] <= k THEN BDrop(Tail(s), k - s[1][2])
         ELSE << <<s[1][1], s[1][2] - k>> >> \o Tail(s)
    ELSE LET h == Len(s) \div 2
             a == SubSeq(s, 1, h)
             b == SubSeq(s, h + 1, Len(s))
             la == BLen(a)
         IN  IF la <= k THEN BDrop(b, k - la) ELSE BDrop(a, k) \o b

RECURSIVE BTake(_, _)
\* the first k bytes of s (std::string::assign(ptr, k), substr(0, k))
BTake(s, k) ==
    IF k <= 0 \/ s = <<>> THEN <<>>
    ELSE IF Len(s) <= 16
    THEN IF s[1][2] <= k THEN <<s[1]>> \o BTake(Tail(s), k - s[1][2])
         ELSE << <<s[1][1], k>> >>
    ELSE LET h == Len(s) \div 2
             a == SubSeq(s, 1, h)
             b == SubSeq(s, h + 1, Len(s))
             la == BLen(a)
         IN  IF k <= la THEN BTake(a, k) ELSE a \o BTake(b, k - la)

RECURSIVE BAt(_, _)
\* the byte at 0-based offset i (i < BLen(s))
BAt(s, i) ==
    IF Len(s) <= 16
    THEN IF i < s[1][2] THEN s[1][1] ELSE BAt(Tail(s), i - s[1][2])
    ELSE LET h == Len(s) \div 2
             a == SubSeq(s, 1, h)
             la == BLen(a)
         IN  IF i < la THEN BAt(a, i) ELSE BAt(SubSeq(s, h + 1, Len(s)), i - la)

(***************************************************************************)
(* Frame encoding: sendFramedMessage builds [4 bytes big-endian N][payload]*)
(***************************************************************************)
\* a sender that writes the length in little-endian order
htonlLittleEndian(n) ==
    BCat(BCat(Fill(n % 256, 1), Fill((n \div 256) % 256, 1)),
         BCat(Fill((n \div 65536) % 256, 1), Fill((n \div 16777216) % 256, 1)))

\* htonl(static_cast<uint32_t>(n)) copied out byte by byte
htonl(n) ==
    BCat(BCat(Fill((n \div 16777216) % 256, 1), Fill((n \div 65536) % 256, 1)),
         BCat(Fill((n \div 256) % 256, 1), Fill(n % 256, 1)))

\* ntohl of the 4 bytes at offset pos of s
ntohl(s, pos) ==
    BAt(s, pos) * 16777216 + BAt(s, pos + 1) * 65536
        + BAt(s, pos + 2) * 256 + BAt(s, pos + 3)

\* the frame sendFramedMessage builds for a payload
framed(message) == BCat(htonl(BLen(message)), message)

(***************************************************************************)
(* MessageBuffer (cursor + compaction), src/src/network/message.cpp        *)
(***************************************************************************)
NewMessageBuffer == [buffer_ |-> Empty, readPos_ |-> 0]

\* a clear that resets the cursor and keeps the bytes
clearKeepsBytes(b) == [b EXCEPT !.readPos_ = 0]

\* a clear that empties the bytes and keeps the cursor
clearKeepsCursor(b) == [b EXCEPT !.buffer_ = Empty]

clear(b) == [buffer_ |-> Empty, readPos_ |-> 0]

\* no compaction at all
compactIfNeededOff(b) == b

\* a compaction that erases the consumed bytes and keeps the cursor
compactKeepsCursor(b) ==
    IF b.readPos_ > 0
       /\ (b.readPos_ > BLen(b.buffer_) \div 2 \/ BLen(b.buffer_) > 1024 * 1024)
    THEN [b EXCEPT !.buffer_ = BDrop(b.buffer_, b.readPos_)]
    ELSE b

compactIfNeeded(b) ==
    IF b.readPos_ > 0
       /\ (b.readPos_ > BLen(b.buffer_) \div 2 \/ BLen(b.buffer_) > 1024 * 1024)
    THEN [buffer_ |-> BDrop(b.buffer_, b.readPos_), readPos_ |-> 0]
    ELSE b

\* an addData that puts the new bytes in front of the unread ones
addDataPrepends(b, data) ==
    LET c == compactIfNeeded(b)
    IN  [c EXCEPT !.buffer_ =
            BCat(BTake(@, c.readPos_), BCat(data, BDrop(@, c.readPos_)))]

addData(b, data) ==
    LET c == compactIfNeeded(b)
    IN  [c EXCEPT !.buffer_ = BCat(@, data)]

\* an extractMessage that does not wait for the whole payload
extractMessageNoWait(b, message) ==
    LET available == BLen(b.buffer_) - b.readPos_
    IN  IF available < 4
        THEN [ok |-> FALSE, message |-> message, mb |-> b]
        ELSE LET length == ntohl(b.buffer_, b.readPos_)
             IN  IF length > 1024 * 1024
                 THEN [ok |-> FALSE, message |-> message, mb |-> clear(b)]
                 ELSE [ok |-> TRUE,
                       message |-> BTake(BDrop(b.buffer_, b.readPos_ + 4), length),
                       mb |-> compactIfNeeded(
                                 [b EXCEPT !.readPos_ = @ + 4 + length])]

\* an extractMessage that discards what is buffered behind the frame it
\* returns
extractMessageDropsRest(b, message) ==
    LET available == BLen(b.buffer_) - b.readPos_
    IN  IF available < 4
        THEN [ok |-> FALSE, message |-> message, mb |-> b]
        ELSE LET length == ntohl(b.buffer_, b.readPos_)
             IN  IF length > 1024 * 1024
                 THEN [ok |-> FALSE, message |-> message, mb |-> clear(b)]
                 ELSE IF available < 4 + length
                 THEN [ok |-> FALSE, message |-> message, mb |-> b]
                 ELSE [ok |-> TRUE,
                       message |-> BTake(BDrop(b.buffer_, b.readPos_ + 4), length),
                       mb |-> clear(b)]

\* an extractMessage that reports an oversized header as a frame
extractMessageOversizeDelivers(b, message) ==
    LET available == BLen(b.buffer_) - b.readPos_
    IN  IF available < 4
        THEN [ok |-> FALSE, message |-> message, mb |-> b]
        ELSE LET length == ntohl(b.buffer_, b.readPos_)
             IN  IF length > 1024 * 1024
                 THEN [ok |-> TRUE, message |-> Empty, mb |-> clear(b)]
                 ELSE IF available < 4 + length
                 THEN [ok |-> FALSE, message |-> message, mb |-> b]
                 ELSE [ok |-> TRUE,
                       message |-> BTake(BDrop(b.buffer_, b.readPos_ + 4), length),
                       mb |-> compactIfNeeded(
                                 [b EXCEPT !.readPos_ = @ + 4 + length])]

\* an extractMessage that treats a zero length as no frame yet
extractMessageSkipsZero(b, message) ==
    LET available == BLen(b.buffer_) - b.readPos_
    IN  IF available < 4
        THEN [ok |-> FALSE, message |-> message, mb |-> b]
        ELSE LET length == ntohl(b.buffer_, b.readPos_)
             IN  IF length > 1024 * 1024
                 THEN [ok |-> FALSE, message |-> message, mb |-> clear(b)]
                 ELSE IF length = 0 \/ available < 4 + length
                 THEN [ok |-> FALSE, message |-> message, mb |-> b]
                 ELSE [ok |-> TRUE,
                       message |-> BTake(BDrop(b.buffer_, b.readPos_ + 4), length),
                       mb |-> compactIfNeeded(
                                 [b EXCEPT !.readPos_ = @ + 4 + length])]

\* the result of extractMessage: the return value, the out-parameter and the
\* buffer afterwards; message is the out-parameter's value before the call
extractMessage(b, message) ==
    LET available == BLen(b.buffer_) - b.readPos_
    IN  IF available < 4
        THEN [ok |-> FALSE, message |-> message, mb |-> b]
        ELSE LET length == ntohl(b.buffer_, b.readPos_)
             IN  IF length > 1024 * 1024
                 THEN [ok |-> FALSE, message |-> message, mb |-> clear(b)]
                 ELSE IF available < 4 + length
                 THEN [ok |-> FALSE, message |-> message, mb |-> b]
                 ELSE [ok |-> TRUE,
                       message |-> BTake(BDrop(b.buffer_, b.readPos_ + 4), length),
                       mb |-> compactIfNeeded(
                                 [b EXCEPT !.readPos_ = @ + 4 + length])]

(***************************************************************************)
(* The reference MessageBuffer (erase on extract), src/src/message.cpp     *)
(***************************************************************************)
refAddData(buf, data) == BCat(buf, data)

refExtractMessage(buf, message) ==
    IF BLen(buf) < 4
    THEN [ok |-> FALSE, message |-> message, buf |-> buf]
    ELSE LET length == ntohl(buf, 0)
         IN  IF length > 1024 * 1024
             THEN [ok |-> FALSE, message |-> message, buf |-> Empty]
             ELSE IF BLen(buf) < 4 + length
             THEN [ok |-> FALSE, message |-> message, buf |-> buf]
             ELSE [ok |-> TRUE,
                   message |-> BTake(BDrop(buf, 4), length),
                   buf |-> BDrop(buf, 4 + length)]

(***************************************************************************)
(* Codec specification: a sender frames payloads onto a byte stream, the   *)
(* stream is handed to addData in chunks, extractMessage is called at any  *)
(* time.  The reference buffer receives the same calls.                    *)
(***************************************************************************)
MaxFrames == 2
MaxAdds == 4

\* the shortest payload, the longest one (zero bytes, like the header's), and
\* one of several runs
Payloads ==
    {Fill(65, 1), Fill(0, 1024 * 1024), << <<65, 1>>, <<0, 2>> >>}

\* declared lengths above the cap
OversizeLens == {1024 * 1024 + 1, 16777216}

\* one byte, one small frame and a byte of the next, one
\* recv buffer (message.cpp:170)
ChunkSizes == {1, 6, 8192}

NoCall ==
    [op |-> "none", ok |-> FALSE, message |-> Empty, refOk |-> FALSE,
     refMessage |-> Empty, avail |-> 0, declared |-> -1, unread |-> Empty]

notCodec == <<queueVars, netVars, clientVars>>

\* no send call made yet
NoSend ==
    [pc |-> "idle", fn |-> "none", sock |-> "none", msgNull |-> FALSE,
     msg |-> Empty, frame |-> Empty, bytesSent |-> 0, result |-> FALSE,
     accepted |-> Empty, polled |-> FALSE, lastSent |-> "none", lastN |-> 0,
     tx |-> "writable"]

InitCodec ==
    /\ mb = NewMessageBuffer
    /\ refbuf = Empty
    /\ wire = Empty
    /\ sent = <<>>
    /\ delivered = <<>>
    /\ wellFormed = TRUE
    /\ adds = 0
    /\ last = NoCall
    /\ sp = NoSend

\* the sender frames one payload (message.cpp:94-97) and the bytes go on the wire
SendFrame ==
    /\ Len(sent) < MaxFrames
    /\ \E p \in Payloads :
          /\ wire' = BCat(wire, framed(p))
          /\ sent' = Append(sent, p)
    /\ UNCHANGED <<mb, refbuf, delivered, wellFormed, adds, last>>
    /\ UNCHANGED <<notCodec, sp>>

\* a peer that does not follow the protocol writes a header declaring more
\* than the cap
SendOversize ==
    /\ wellFormed
    /\ Len(sent) < MaxFrames
    /\ \E n \in OversizeLens : wire' = BCat(wire, htonl(n))
    /\ wellFormed' = FALSE
    /\ UNCHANGED <<mb, refbuf, sent, delivered, adds, last>>
    /\ UNCHANGED <<notCodec, sp>>

\* addData with the next k bytes of the stream
AddChunk ==
    /\ adds < MaxAdds
    /\ wire # Empty
    /\ \E k \in ChunkSizes \cup {BLen(wire)} :
          /\ k <= BLen(wire)
          /\ mb' = addData(mb, BTake(wire, k))
          /\ refbuf' = refAddData(refbuf, BTake(wire, k))
          /\ wire' = BDrop(wire, k)
    /\ adds' = adds + 1
    /\ last' = [last EXCEPT !.op = "add"]
    /\ UNCHANGED <<sent, delivered, wellFormed>>
    /\ UNCHANGED <<notCodec, sp>>

\* a clear() call by the buffer's owner on both buffers; when unread bytes
\* are dropped the rest of the stream is no longer a sequence of frames
Clear ==
    /\ mb.buffer_ # Empty
    /\ mb' = clear(mb)
    /\ refbuf' = Empty
    /\ wellFormed' = (wellFormed /\ mb.readPos_ = BLen(mb.buffer_))
    /\ last' = [NoCall EXCEPT !.op = "clear",
                               !.avail = BLen(mb.buffer_) - mb.readPos_]
    /\ UNCHANGED <<wire, sent, delivered, adds>>
    /\ UNCHANGED <<notCodec, sp>>

\* one extractMessage call on both buffers (a stream that lost its framing
\* can decode zero-length frames without end: the model stops calling after
\* one payload more than was framed)
Extract ==
    Len(delivered) <= MaxFrames /\
    LET r == extractMessage(mb, last.message)
        f == refExtractMessage(refbuf, last.refMessage)
        av == BLen(mb.buffer_) - mb.readPos_
    IN  /\ mb' = r.mb
        /\ refbuf' = f.buf
        /\ delivered' = IF r.ok THEN Append(delivered, r.message) ELSE delivered
        /\ last' = [op |-> "extract", ok |-> r.ok, message |-> r.message,
                    refOk |-> f.ok, refMessage |-> f.message,
                    avail |-> av,
                    declared |-> IF av >= 4 THEN ntohl(mb.buffer_, mb.readPos_)
                                 ELSE -1,
                    unread |-> BDrop(mb.buffer_, mb.readPos_)]
        /\ UNCHANGED <<wire, sent, wellFormed, adds>>
        /\ UNCHANGED <<notCodec, sp>>

(***************************************************************************)
(* Codec properties                                                        *)
(***************************************************************************)
IsPrefix(s, t) == Len(s) <= Len(t) /\ SubSeq(t, 1, Len(s)) = s

RECURSIVE FramesLen(_)
\* the number of wire bytes of the frames of a sequence of payloads
FramesLen(ps) ==
    IF ps = <<>> THEN 0 ELSE 4 + BLen(ps[1]) + FramesLen(Tail(ps))

\* bytes handed to addData so far, while only well-formed frames were sent
Received == FramesLen(sent) - BLen(wire)

\* C1: one frame built by sendFramedMessage, handed whole to an empty
\* MessageBuffer by one addData call: extractMessage succeeds and returns
\* exactly the payload that was framed.
C1_RoundTrip ==
    (wellFormed /\ Len(sent) = 1 /\ adds = 1 /\ wire = Empty
        /\ last.op = "extract")
    => /\ delivered = sent
       /\ last.message = sent[1]
       /\ (last.avail > 0 => last.ok)

C1_Witness ==
    /\ wellFormed /\ Len(sent) = 1 /\ adds = 1 /\ wire = Empty
    /\ last.op = "extract" /\ last.ok
    /\ BLen(sent[1]) = 1024 * 1024
    /\ last.message = sent[1]

\* C2: with well-formed frames and any chunking, no payload is returned before
\* all 4+N bytes of its frame were added, the payloads returned are the framed
\* payloads in order, and a failed extractMessage means the frame at the cursor
\* is not complete yet.
C2_PartialFrameStability ==
    wellFormed =>
        /\ IsPrefix(delivered, sent)
        /\ FramesLen(delivered) <= Received
        /\ (last.op = "extract" /\ ~last.ok) =>
              \/ Len(delivered) = Len(sent)
              \/ FramesLen(SubSeq(sent, 1, Len(delivered) + 1)) > Received

C2_Witness ==
    /\ wellFormed /\ Len(sent) = 2 /\ delivered = sent
    /\ adds = MaxAdds /\ sent[1] # sent[2]

\* C3: an extractMessage that finds 4 header bytes declaring more than
\* 1,048,576 returns nothing and leaves the buffer empty with cursor 0, whatever
\* was buffered behind the header; a declared 1,048,576 is not rejected: the
\* frame is returned when complete and the bytes are kept when it is not.
C3_OversizeRejection ==
    last.op = "extract" =>
        /\ (last.avail >= 4 /\ last.declared > 1024 * 1024) =>
              (~last.ok /\ mb = [buffer_ |-> Empty, readPos_ |-> 0])
        /\ (last.declared = 1024 * 1024 /\ last.avail >= 4 + 1024 * 1024) =>
              (last.ok /\ BLen(last.message) = 1024 * 1024)
        /\ (last.declared = 1024 * 1024 /\ last.avail < 4 + 1024 * 1024) =>
              (~last.ok /\ BDrop(mb.buffer_, mb.readPos_) = last.unread)

\* an oversize header with a whole well-formed frame buffered behind it
C3_Witness ==
    /\ last.op = "extract" /\ last.declared = 1024 * 1024 + 1
    /\ Len(sent) = 1 /\ last.avail = 4 + FramesLen(sent)
    /\ BDrop(last.unread, 4) = framed(sent[1])
    /\ mb = [buffer_ |-> Empty, readPos_ |-> 0]

\* C4: the cursor-and-compaction buffer and the reference buffer, given the
\* same calls, return the same results, and the unread bytes
\* buffer_[readPos_ ..) are the reference buffer's contents.
C4_CompactionTransparency ==
    /\ BDrop(mb.buffer_, mb.readPos_) = refbuf
    /\ last.ok = last.refOk
    /\ last.message = last.refMessage

\* an extraction compacted the buffer and unread bytes remain
C4_Witness ==
    /\ last.op = "extract" /\ last.ok
    /\ mb.readPos_ = 0 /\ mb.buffer_ # Empty
    /\ BLen(mb.buffer_) < BLen(last.unread)
    /\ refbuf = mb.buffer_

NextCodec == SendFrame \/ SendOversize \/ AddChunk \/ Extract

\* the codec with clear() calls by its owner
NextClear == NextCodec \/ Clear

(***************************************************************************)
(* The send path, src/src/network/message.cpp:88-151: sendFramedMessage    *)
(* and its wrappers sendToClient / sendToServer, called on their own.      *)
(* sp.tx is what the descriptor's transport does: "writable", "full" (poll *)
(* times out), "hup" (poll reports POLLERR / POLLHUP without POLLOUT) or   *)
(* "nval" (the descriptor number is not open: POLLNVAL).                   *)
(***************************************************************************)
SendFns == {"sendFramedMessage", "sendToClient", "sendToServer"}

\* the payloads handed to the sender: empty, one byte, three bytes
SendPayloads == {Empty, Fill(65, 1), << <<65, 1>>, <<66, 2>> >>}

TxStates == {"writable", "full", "hup", "nval"}

codecRest == <<mb, refbuf, wire, sent, delivered, wellFormed, adds, last>>

\* an argument test that lets an empty payload through
argsRejectedEmptyAllowed(fn, sock, msgNull, msg) ==
    sock \in {"null", "invalid"} \/ msgNull

\* lines 89, 140 and 147: socketFd < 0 || message.empty(), and for the
\* wrappers !socket || *socket < 0 || !message || message->empty()
argsRejected(fn, sock, msgNull, msg) ==
    sock \in {"null", "invalid"} \/ msgNull \/ msg = Empty

\* a loop that stops after the first bytes were accepted
moreToSendFirstOnly(bytesSent, totalLength) == bytesSent = 0

\* line 103: bytesSent < totalLength
moreToSend(bytesSent, totalLength) == bytesSent < totalLength

\* a call: sendFramedMessage takes a descriptor number and a string, the
\* wrappers a SocketPtr and a shared_ptr to the string, either of which may be
\* null; rejected arguments return false at once (lines 89-91, 140-142,
\* 147-149), otherwise the frame is built (lines 94-101)
SendCall ==
    /\ sp.pc \in {"idle", "done"}
    /\ \E fn \in SendFns, sock \in {"null", "invalid", "valid"},
          msgNull \in BOOLEAN, msg \in SendPayloads, tx \in TxStates :
          /\ fn = "sendFramedMessage" => sock # "null" /\ ~msgNull
          /\ msgNull => msg = Empty
          /\ sp' = IF argsRejected(fn, sock, msgNull, msg)
                   THEN [NoSend EXCEPT !.pc = "done", !.fn = fn,
                                       !.sock = sock, !.msgNull = msgNull,
                                       !.msg = msg, !.tx = tx]
                   ELSE [NoSend EXCEPT !.pc = "loop", !.fn = fn,
                                       !.sock = sock, !.msg = msg,
                                       !.frame = framed(msg), !.tx = tx]
    /\ UNCHANGED <<codecRest, notCodec>>

\* line 103 and 136: the loop condition; return true when nothing is left
SendLoop ==
    /\ sp.pc = "loop"
    /\ sp' = IF moreToSend(sp.bytesSent, BLen(sp.frame))
             THEN [sp EXCEPT !.pc = "poll"]
             ELSE [sp EXCEPT !.pc = "done", !.result = TRUE]
    /\ UNCHANGED <<codecRest, notCodec>>

\* lines 104-116: poll(POLLOUT, 1 ms): it fails (return false), reports
\* POLLOUT, or times out / reports other flags only (continue)
SendPoll ==
    /\ sp.pc = "poll"
    /\ \/ sp' = [sp EXCEPT !.polled = TRUE, !.pc = "done", !.result = FALSE]
       \/ sp' = [sp EXCEPT !.polled = TRUE,
                           !.pc = IF sp.tx = "writable" THEN "send"
                                  ELSE "loop"]
    /\ UNCHANGED <<codecRest, notCodec>>

\* lines 120-133: send of the unsent rest: n bytes are accepted, or the call
\* would block (continue), or it returns 0 or another error (return false)
SendSend ==
    /\ sp.pc = "send"
    /\ \/ \E n \in 1..(BLen(sp.frame) - sp.bytesSent) :
             sp' = [sp EXCEPT !.accepted = BCat(@, BTake(BDrop(sp.frame,
                                                   sp.bytesSent), n)),
                              !.bytesSent = @ + n, !.lastSent = "bytes",
                              !.lastN = n, !.pc = "loop"]
       \/ sp' = [sp EXCEPT !.lastSent = "again", !.pc = "loop"]
       \/ \E r \in {"zero", "error"} :
             sp' = [sp EXCEPT !.lastSent = r, !.pc = "done",
                              !.result = FALSE]
    /\ UNCHANGED <<codecRest, notCodec>>

\* the descriptor's transport changes state: the peer reads or stops
\* reading, the connection is reset, the descriptor number is closed
TransportChange ==
    /\ sp.pc \in {"loop", "poll", "send"}
    /\ \E tx \in TxStates \ {sp.tx} : sp' = [sp EXCEPT !.tx = tx]
    /\ UNCHANGED <<codecRest, notCodec>>

sendFramedMessage == SendLoop \/ SendPoll \/ SendSend

NextSend == SendCall \/ sendFramedMessage \/ TransportChange

(***************************************************************************)
(* sendFramedMessage on payloads of any size_t length.  A length is kept   *)
(* in two digits, N = hi * 65536 + lo, because a std::string can be longer *)
(* than the largest integer the checker holds; a payload is given by its   *)
(* length and the byte it repeats.                                         *)
(***************************************************************************)
Wide(hi, lo) == [hi |-> hi, lo |-> lo]

WLess(a, b) == a.hi < b.hi \/ (a.hi = b.hi /\ a.lo < b.lo)

WAdd(a, b) ==
    LET s == a.lo + b.lo
    IN  [hi |-> a.hi + b.hi + s \div 65536, lo |-> s % 65536]

\* a - b for a >= b
WSub(a, b) ==
    IF a.lo >= b.lo THEN [hi |-> a.hi - b.hi, lo |-> a.lo - b.lo]
    ELSE [hi |-> a.hi - b.hi - 1, lo |-> a.lo + 65536 - b.lo]

\* a - b, or zero when b > a
WMonus(a, b) == IF WLess(a, b) THEN Wide(0, 0) ELSE WSub(a, b)

WMin(a, b) == IF WLess(a, b) THEN a ELSE b

\* line 94, static_cast<uint32_t>(message.size()): the low 32 bits
castU32(n) == [hi |-> n.hi % 65536, lo |-> n.lo]

\* line 94, htonl of a 32-bit value: its four bytes, most significant first
htonlWide(u) ==
    BCat(BCat(Fill(u.hi \div 256, 1), Fill(u.hi % 256, 1)),
         BCat(Fill(u.lo \div 256, 1), Fill(u.lo % 256, 1)))

\* the 32-bit value a receiver reads from four header bytes
ntohlWide(s) ==
    [hi |-> BAt(s, 0) * 256 + BAt(s, 1), lo |-> BAt(s, 2) * 256 + BAt(s, 3)]

\* payload lengths: 0, 1, the receiver's cap 2^20, 2^20 + 1, 2^32 - 1, 2^32
\* and 2^32 + 5
WideSizes ==
    {Wide(0, 0), Wide(0, 1), Wide(16, 0), Wide(16, 1), Wide(65535, 65535),
     Wide(65536, 0), Wide(65536, 5)}

WideBytes == {0, 65, 255}

\* the transport takes the frame in pieces only within its first bytes
MaxPartial == 6

\* lines 88-101: the argument test, then the frame: a vector of 4 + N bytes,
\* the header copied to its start and the payload after it
WideCall ==
    /\ sp.pc \in {"idle", "done"}
    /\ \E sock \in {"invalid", "valid"}, size \in WideSizes, b \in WideBytes :
          LET message == [byte |-> b, size |-> size]
          IN  sp' = IF sock = "invalid" \/ size = Wide(0, 0)
                    THEN [NoSend EXCEPT !.pc = "done",
                                        !.fn = "sendFramedMessage",
                                        !.sock = sock, !.msg = message,
                                        !.frame = [header |-> Empty,
                                                   payload |-> Wide(0, 0)],
                                        !.bytesSent = Wide(0, 0),
                                        !.accepted = [header |-> Empty,
                                                      payload |-> Wide(0, 0)]]
                    ELSE [NoSend EXCEPT !.pc = "wloop",
                                        !.fn = "sendFramedMessage",
                                        !.sock = sock, !.msg = message,
                                        !.frame = [header |->
                                                     htonlWide(castU32(size)),
                                                   payload |-> size],
                                        !.bytesSent = Wide(0, 0),
                                        !.accepted = [header |-> Empty,
                                                      payload |-> Wide(0, 0)]]
    /\ UNCHANGED <<codecRest, notCodec>>

\* line 101: totalLength = framed.size()
totalLength(frame) == WAdd(Wide(0, 4), frame.payload)

\* lines 103 and 136
WideLoop ==
    /\ sp.pc = "wloop"
    /\ sp' = IF WLess(sp.bytesSent, totalLength(sp.frame))
             THEN [sp EXCEPT !.pc = "wpoll"]
             ELSE [sp EXCEPT !.pc = "done", !.result = TRUE]
    /\ UNCHANGED <<codecRest, notCodec>>

\* lines 104-116: poll fails, reports POLLOUT, or does neither
WidePoll ==
    /\ sp.pc = "wpoll"
    /\ \/ sp' = [sp EXCEPT !.polled = TRUE, !.pc = "done", !.result = FALSE]
       \/ \E next \in {"wsend", "wloop"} :
             sp' = [sp EXCEPT !.polled = TRUE, !.pc = next]
    /\ UNCHANGED <<codecRest, notCodec>>

\* lines 120-133: the transport takes the next n bytes of the frame (one,
\* four or all that is left), or would block, or fails
WideSend ==
    /\ sp.pc = "wsend"
    /\ \/ LET left == WSub(totalLength(sp.frame), sp.bytesSent)
          IN  \E n \in {Wide(0, 1), Wide(0, 4), left} :
                 /\ ~WLess(left, n)
                 /\ n = left \/ WLess(sp.bytesSent, Wide(0, MaxPartial))
                 /\ LET from == sp.bytesSent
                        to == WAdd(from, n)
                        h0 == WMin(from, Wide(0, 4)).lo
                        h1 == WMin(to, Wide(0, 4)).lo
                    IN  sp' = [sp EXCEPT
                                 !.accepted =
                                    [header |-> BCat(@.header,
                                        BTake(BDrop(sp.frame.header, h0),
                                              h1 - h0)),
                                     payload |-> WAdd(@.payload,
                                        WSub(WMonus(to, Wide(0, 4)),
                                             WMonus(from, Wide(0, 4))))],
                                 !.bytesSent = to, !.lastSent = "bytes",
                                 !.pc = "wloop"]
       \/ sp' = [sp EXCEPT !.lastSent = "again", !.pc = "wloop"]
       \/ \E r \in {"zero", "error"} :
             sp' = [sp EXCEPT !.lastSent = r, !.pc = "done",
                              !.result = FALSE]
    /\ UNCHANGED <<codecRest, notCodec>>

NextWide == WideCall \/ WideLoop \/ WidePoll \/ WideSend

(***************************************************************************)
(* Send path properties                                                    *)
(***************************************************************************)
\* C14: sendFramedMessage returns true only when the transport has accepted
\* every byte of the frame: then the accepted byte counts add up to
\* 4 + payload length and the accepted bytes are the frame, in order, no gap
\* and no repeat; and a send result of 0 or of an error other than
\* would-block makes it return false.
C14_SendAllOrFalse ==
    /\ (sp.pc = "done" /\ sp.result)
          => /\ sp.bytesSent = 4 + BLen(sp.msg)
             /\ sp.accepted = framed(sp.msg)
    /\ BLen(sp.accepted) = sp.bytesSent
    /\ sp.lastSent \in {"zero", "error"} => sp.pc = "done" /\ ~sp.result

\* a three-byte payload went out in more than one send and the call
\* returned true
C14_Witness ==
    /\ sp.pc = "done" /\ sp.result
    /\ BLen(sp.msg) = 3
    /\ sp.lastSent = "bytes" /\ sp.lastN < 7
    /\ sp.accepted = framed(sp.msg)

\* C15: a call with an empty payload, an invalid descriptor or a null
\* argument returns false without polling and without writing a byte.
C15_EmptyRejected ==
    (sp.pc # "idle"
     /\ (sp.sock \in {"null", "invalid"} \/ sp.msgNull \/ sp.msg = Empty))
        => /\ sp.pc = "done" /\ ~sp.result
           /\ ~sp.polled
           /\ sp.accepted = Empty /\ sp.bytesSent = 0

\* sendToServer was called with an empty payload on a valid descriptor
C15_Witness ==
    /\ sp.pc = "done" /\ ~sp.result
    /\ sp.fn = "sendToServer" /\ sp.sock = "valid"
    /\ ~sp.msgNull /\ sp.msg = Empty

\* C16: sendFramedMessage terminates on every input: a call that has entered
\* its loop eventually returns, also when the descriptor never becomes
\* writable.
C16_SendTerminates ==
    (sp.pc \in {"loop", "poll", "send"}) ~> (sp.pc = "done")


(***************************************************************************)
(* MessageQueue, src/src/network/message.cpp:61-85.  Producer threads push, *)
(* one consumer pops (and may clear); each call takes mutex_ with a         *)
(* lock_guard, runs its body and releases the mutex on return.              *)
(***************************************************************************)
Producers == {"p1", "p2"}
Consumer == "main"
QThreads == Producers \cup {Consumer}

MaxPush == 2
MaxClears == 1

\* a push that puts the entry at the head
queuePushFront(q, e) == <<e>> \o q

\* std::queue::push
queuePush(q, e) == Append(q, e)

\* std::queue::front
queueFront(q) == Head(q)

\* std::queue::pop
queuePop(q) == Tail(q)

notQueue == <<codecVars, netVars, clientVars>>

InitQueue ==
    /\ messages_ = <<>>
    /\ mutex_ = "free"
    /\ qpc = [t \in QThreads |-> "idle"]
    /\ pushed = [t \in Producers |-> 0]
    /\ pushOrder = <<>>
    /\ popped = <<>>
    /\ popOut = [ok |-> FALSE, source |-> "", message |-> 0]
    /\ clears = 0

\* std::lock_guard<std::mutex> lock(mutex_) at the head of push, pop or clear
QLock(t, call) ==
    /\ qpc[t] = "idle"
    /\ mutex_ = "free"
    /\ mutex_' = t
    /\ qpc' = [qpc EXCEPT ![t] = call]
    /\ UNCHANGED <<messages_, pushed, pushOrder, popped, popOut, clears>>
    /\ UNCHANGED notQueue

PushLock(t) == pushed[t] < MaxPush /\ QLock(t, "push")

\* messages_.push({source, message}) and the return; the producer's n-th
\* entry carries n
PushBody(t) ==
    /\ qpc[t] = "push"
    /\ LET e == [source |-> t, message |-> pushed[t] + 1]
       IN  /\ messages_' = queuePush(messages_, e)
           /\ pushOrder' = Append(pushOrder, e)
    /\ pushed' = [pushed EXCEPT ![t] = @ + 1]
    /\ mutex_' = "free"
    /\ qpc' = [qpc EXCEPT ![t] = "idle"]
    /\ UNCHANGED <<popped, popOut, clears>>
    /\ UNCHANGED notQueue

PopLock == QLock(Consumer, "pop")

popEmptyResetsOutputs(out) == [ok |-> FALSE, source |-> "", message |-> 0]

\* lines 68-70: return false; source and message are not assigned
popEmpty(out) == [out EXCEPT !.ok = FALSE]

\* the body of pop: false on an empty queue, else front, pop and the
\* out-parameters
PopBody ==
    /\ qpc[Consumer] = "pop"
    /\ IF messages_ = <<>>
       THEN /\ popOut' = popEmpty(popOut)
            /\ UNCHANGED <<messages_, popped>>
       ELSE LET msg == queueFront(messages_)
            IN  /\ messages_' = queuePop(messages_)
                /\ popOut' = [ok |-> TRUE, source |-> msg.source,
                              message |-> msg.message]
                /\ popped' = Append(popped, msg)
    /\ mutex_' = "free"
    /\ qpc' = [qpc EXCEPT ![Consumer] = "idle"]
    /\ UNCHANGED <<pushed, pushOrder, clears>>
    /\ UNCHANGED notQueue

ClearLock == clears < MaxClears /\ QLock(Consumer, "clear")

\* the body of clear: pop until empty
ClearBody ==
    /\ qpc[Consumer] = "clear"
    /\ messages_' = <<>>
    /\ clears' = clears + 1
    /\ mutex_' = "free"
    /\ qpc' = [qpc EXCEPT ![Consumer] = "idle"]
    /\ UNCHANGED <<pushed, pushOrder, popped, popOut>>
    /\ UNCHANGED notQueue

NextQueue ==
    \/ \E t \in Producers : PushLock(t) \/ PushBody(t)
    \/ PopLock \/ PopBody \/ ClearLock \/ ClearBody

(***************************************************************************)
(* Queue properties                                                        *)
(***************************************************************************)
RECURSIVE IsSubseq(_, _)
\* s can be had from t by deleting entries
IsSubseq(s, t) ==
    IF s = <<>> THEN TRUE
    ELSE IF t = <<>> THEN FALSE
    ELSE IF s[1] = t[1] THEN IsSubseq(Tail(s), Tail(t))
    ELSE IsSubseq(s, Tail(t))

\* C5: the queue is FIFO for its single consumer: each producer's entries are
\* popped in that producer's push order without repeats, what was popped
\* followed by what is queued keeps the order of the pushes, and unless clear
\* was called it is exactly what was pushed (nothing lost, nothing twice).
C5_QueueOrdering ==
    /\ \A i, j \in 1..Len(popped) :
          (i < j /\ popped[i].source = popped[j].source)
              => popped[i].message < popped[j].message
    /\ IsSubseq(popped \o messages_, pushOrder)
    /\ clears = 0 => popped \o messages_ = pushOrder

\* two producers' entries interleaved, all popped
C5_Witness ==
    /\ clears = 0 /\ Len(popped) = 4 /\ messages_ = <<>>
    /\ popped[1].source = "p1" /\ popped[2].source = "p2"
    /\ popped[3].source = "p1" /\ popped[4].source = "p2"

(***************************************************************************)
(* ClientConnection objects (src/src/network/connection.h).  An object is  *)
(* shared (ClientConnectionPtr): a server-role object is held by the       *)
(* registry, by its receive thread (the thread function's by-value         *)
(* argument) and by the accept thread's local clientConn.                  *)
(***************************************************************************)
MaxAttempts == 2

\* the ceiling handed to serverAcceptThread (main passes 1000)
maxConnections == 1

Conns == 1..MaxAttempts

\* a slot no object was created in yet
NoConn ==
    [life |-> "none", role |-> "none", id |-> 0,
     running |-> FALSE, connected |-> FALSE,
     fd |-> "none", rpc |-> "none", joined |-> FALSE,
     buffer |-> NewMessageBuffer, message |-> Empty,
     inbox |-> Empty, peer |-> "open", hup |-> FALSE,
     zeroRead |-> FALSE, retried |-> FALSE, fell |-> FALSE, closes |-> 0,
     stopPolls |-> 0, sends |-> 0, sentFrames |-> <<>>, framesOnly |-> TRUE]

\* ClientConnection::ClientConnection(clientId) wrapping an open descriptor
NewConn(role, clientId) ==
    [NoConn EXCEPT !.life = "live", !.role = role, !.id = clientId,
                   !.fd = "open"]

\* a store to the atomic connected; fell remembers a true -> false change
\* a store to connected that also resets the decode state when it clears
SetConnectedResetsCodec(k, v) ==
    [k EXCEPT !.connected = v, !.fell = @ \/ (k.connected /\ ~v),
              !.buffer = IF v THEN @ ELSE clear(@)]

SetConnected(k, v) ==
    [k EXCEPT !.connected = v, !.fell = @ \/ (k.connected /\ ~v)]

Range(f) == {f[i] : i \in DOMAIN f}

\* who holds a reference to server-role object c
Held(c, reg, local, cn) ==
    \/ c \in Range(reg)
    \/ local = c
    \/ cn[c].rpc \in {"start", "loop", "recv", "probe", "exit"}

\* connection.cpp:7-11: running = false; connected = false; close(*socket)
DtorBegin(k) ==
    [SetConnected(k, FALSE) EXCEPT !.running = FALSE, !.fd = "closed",
                                   !.closes = @ + 1]

\* connection.cpp:12-15 and the members' destructors: the receive thread is
\* joined; the object held the last SocketPtr to its descriptor, whose
\* deleter closes *s again (*s is never set to -1)
DtorEnd(k) ==
    [k EXCEPT !.life = "destroyed", !.joined = TRUE, !.closes = @ + 1]

\* ClientConnection::~ClientConnection run by a thread other than the
\* object's receive thread, once that thread has returned
Destroy(k) == DtorEnd(DtorBegin(k))

\* the objects of cn after the references in reg and local are all that is
\* left: an object nobody holds is destroyed
Reap(cn, reg, local) ==
    [c \in Conns |->
        IF cn[c].life = "live" /\ cn[c].role = "server"
           /\ ~Held(c, reg, local, cn)
        THEN Destroy(cn[c]) ELSE cn[c]]

\* remove_if(!conn->connected && !conn->running) over a registry
Purge(reg, cn) ==
    SelectSeq(reg, LAMBDA c : ~(~cn[c].connected /\ ~cn[c].running))

\* receivedMessages.push(source, message); by names the pushing thread's
\* connection (0: the accept thread)
Notify(source, text, id, payload, by) ==
    LET e == [source |-> source,
              message |-> [text |-> text, id |-> id, payload |-> payload],
              by |-> by]
    IN  /\ messages_' = queuePush(messages_, e)
        /\ pushOrder' = Append(pushOrder, e)

NoNotify == UNCHANGED <<messages_, pushOrder>>

\* the entries connection c's receive thread pushed with this text
Pushed(c, text) ==
    SelectSeq(pushOrder, LAMBDA e : e.by = c /\ e.message.text = text)

queueRest == <<mutex_, qpc, pushed, popped, popOut, clears>>

\* the accept thread's history: what its last pass did, and how many polls
\* the loop has begun since its running flag was cleared (while the thread is
\* in the loop)
NoPass == [last |-> "none", stopPolls |-> 0]

\* the history of a thread that has left its loop
Left(h) == [h EXCEPT !.stopPolls = 0]

\* a poll begun by a loop whose running flag reads `running`: counted when the
\* owner has already cleared the flag
PollsAfterStop(n, running) == IF running THEN n ELSE n + 1

loopIgnoresStop(running) == TRUE

\* the `running &&` conjunct of a loop condition (part_006:18, part_006:53)
loopContinues(running) == running

\* a counter that hands out the same id again
nextIdStuck(n) == n

\* the post-increment of an id counter: nextClientId++ (part_006:106) and
\* nextClientConnectionId++ (main.cpp:185)
nextId(n) == n + 1

InitNet ==
    /\ conn = [c \in Conns |-> NoConn]
    /\ serverSocket = "null"
    /\ serverAcceptRunning = FALSE
    /\ nextClientId = 1
    /\ serverClients = <<>>
    /\ serverClientsMutex = "free"
    /\ apc = "none"
    /\ aconn = 0
    /\ backlog = 0
    /\ attempts = 0
    /\ mpc = "pop"
    /\ aborted = FALSE
    /\ acc = NoPass

(***************************************************************************)
(* receiveFramedMessage, src/src/network/message.cpp:153-182               *)
(***************************************************************************)
\* what poll reports for a connection's descriptor
PollIn(k) == k.fd = "open" /\ (k.inbox # Empty \/ k.peer = "closed")
PollHupErr(k) == k.fd = "open" /\ k.peer = "closed" /\ k.hup

\* the call's result on connection object k: the return value and the object
\* afterwards.  recv hands over what the socket holds, 8192 bytes at most; it
\* returns 0 when the peer has closed and nothing is left to read.
receiveFramedMessage(k) ==
    IF ~PollIn(k)
    THEN [ok |-> FALSE, k |-> k]
    ELSE IF k.inbox = Empty
    THEN [ok |-> FALSE,
          k |-> [k EXCEPT !.zeroRead = TRUE, !.retried = k.zeroRead]]
    ELSE LET n == IF BLen(k.inbox) < 8192 THEN BLen(k.inbox) ELSE 8192
             b == addData(k.buffer, BTake(k.inbox, n))
             r == extractMessage(b, k.message)
         IN  [ok |-> r.ok,
              k |-> [k EXCEPT !.inbox = BDrop(k.inbox, n), !.buffer = r.mb,
                              !.message = r.message]]

(***************************************************************************)
(* serverReceiveThread, src/unnamed/part_006:10-41                         *)
(***************************************************************************)
netRest ==
    <<serverSocket, serverAcceptRunning, nextClientId, serverClients,
      serverClientsMutex, apc, aconn, backlog, attempts, mpc, acc>>

\* lines 11-16: the descriptor is valid, connected = true
SrvRecvStart(c) ==
    /\ ~aborted
    /\ conn[c].role = "server" /\ conn[c].rpc = "start"
    /\ conn' = [conn EXCEPT ![c] = [SetConnected(@, TRUE) EXCEPT !.rpc = "loop"]]
    /\ NoNotify
    /\ UNCHANGED <<netRest, aborted, queueRest, codecVars, clientVars>>

\* lines 18-19: the loop condition
SrvRecvLoop(c) ==
    /\ ~aborted
    /\ conn[c].role = "server" /\ conn[c].rpc = "loop"
    /\ conn' = [conn EXCEPT ![c].rpc =
                   IF loopContinues(conn[c].running) /\ conn[c].connected
                   THEN "recv"
                   ELSE "exit"]
    /\ NoNotify
    /\ UNCHANGED <<netRest, aborted, queueRest, codecVars, clientVars>>

\* lines 20-25: one receiveFramedMessage; a decoded frame is pushed
SrvRecvCycle(c) ==
    /\ ~aborted
    /\ conn[c].role = "server" /\ conn[c].rpc = "recv"
    /\ LET r == receiveFramedMessage(
                    [conn[c] EXCEPT !.stopPolls =
                                        PollsAfterStop(@, conn[c].running)])
       IN  IF r.ok
           THEN /\ conn' = [conn EXCEPT ![c] = [r.k EXCEPT !.rpc = "loop"]]
                /\ Notify("Server", "[SERVER] receives [CLIENT", conn[c].id,
                          r.k.message, c)
           ELSE /\ conn' = [conn EXCEPT ![c] = [r.k EXCEPT !.rpc = "probe"]]
                /\ NoNotify
    /\ UNCHANGED <<netRest, aborted, queueRest, codecVars, clientVars>>

\* lines 26-36: the zero-timeout probe for POLLERR | POLLHUP
SrvRecvProbe(c) ==
    /\ ~aborted
    /\ conn[c].role = "server" /\ conn[c].rpc = "probe"
    /\ IF PollHupErr(conn[c])
       THEN /\ conn' = [conn EXCEPT ![c] =
                           [SetConnected(@, FALSE) EXCEPT !.rpc = "exit"]]
            /\ Notify("System", "Client disconnected", 0, Empty, c)
       ELSE /\ conn' = [conn EXCEPT ![c].rpc = "loop"]
            /\ NoNotify
    /\ UNCHANGED <<netRest, aborted, queueRest, codecVars, clientVars>>

\* line 40 and the return: connected = false, the thread's reference to the
\* object is dropped; if it was the last one the destructor runs on this
\* thread and joins the thread itself, which ends in std::terminate
SrvRecvExit(c) ==
    /\ ~aborted
    /\ conn[c].role = "server" /\ conn[c].rpc = "exit"
    /\ conn' = [conn EXCEPT ![c] = Left([SetConnected(@, FALSE) EXCEPT !.rpc = "done"])]
    /\ aborted' = (c \notin Range(serverClients) /\ aconn # c)
    /\ NoNotify
    /\ UNCHANGED <<netRest, queueRest, codecVars, clientVars>>

serverReceiveThread(c) ==
    \/ SrvRecvStart(c) \/ SrvRecvLoop(c) \/ SrvRecvCycle(c)
    \/ SrvRecvProbe(c) \/ SrvRecvExit(c)

(***************************************************************************)
(* serverAcceptThread, src/unnamed/part_006:43-127                         *)
(***************************************************************************)
\* a ceiling test that lets one connection too many in
atCeilingOffByOne(n) == n > maxConnections

\* line 79: clients.size() >= maxConnections
atCeiling(n) == n >= maxConnections

\* the first free object slot
FreeSlot == CHOOSE c \in Conns : conn[c].life = "none" /\
                \A d \in Conns : d < c => conn[d].life # "none"

\* line 53: the loop condition
AcceptLoop ==
    /\ ~aborted
    /\ apc = "loop"
    /\ apc' = IF loopContinues(serverAcceptRunning) THEN "poll" ELSE "done"
    /\ acc' = IF loopContinues(serverAcceptRunning) THEN acc ELSE Left(acc)
    /\ UNCHANGED <<conn, serverSocket, serverAcceptRunning, nextClientId,
                   serverClients, serverClientsMutex, aconn, backlog, attempts,
                   mpc, aborted>>
    /\ UNCHANGED <<queueVars, codecVars, clientVars>>

\* lines 54-67: poll(1 ms) on the listener; readable when an attempt is queued
AcceptPoll ==
    /\ ~aborted
    /\ apc = "poll"
    /\ apc' = IF serverSocket = "open" /\ backlog > 0 THEN "lock" ELSE "loop"
    /\ acc' = [acc EXCEPT !.stopPolls = PollsAfterStop(@, serverAcceptRunning)]
    /\ UNCHANGED <<conn, serverSocket, serverAcceptRunning, nextClientId,
                   serverClients, serverClientsMutex, aconn, backlog, attempts,
                   mpc, aborted>>
    /\ UNCHANGED <<queueVars, codecVars, clientVars>>

\* lines 62-64: poll fails (a signal): the loop is left
AcceptPollError ==
    /\ ~aborted
    /\ apc = "poll"
    /\ apc' = "done"
    /\ acc' = Left(acc)
    /\ UNCHANGED <<conn, serverSocket, serverAcceptRunning, nextClientId,
                   serverClients, serverClientsMutex, aconn, backlog, attempts,
                   mpc, aborted>>
    /\ UNCHANGED <<queueVars, codecVars, clientVars>>

\* line 71: lock_guard on clientsMutex
AcceptLock ==
    /\ ~aborted
    /\ apc = "lock"
    /\ serverClientsMutex = "free"
    /\ serverClientsMutex' = "accept"
    /\ apc' = "check"
    /\ UNCHANGED <<conn, serverSocket, serverAcceptRunning, nextClientId,
                   serverClients, aconn, backlog, attempts, mpc, aborted, acc>>
    /\ UNCHANGED <<queueVars, codecVars, clientVars>>

\* lines 72-79 and 88: purge, then the ceiling test; below the ceiling the lock
\* is released
AcceptCheck ==
    /\ ~aborted
    /\ apc = "check"
    /\ LET reg == Purge(serverClients, conn)
       IN  /\ serverClients' = reg
           /\ conn' = Reap(conn, reg, aconn)
           /\ IF atCeiling(Len(reg))
              THEN apc' = "reject" /\ UNCHANGED serverClientsMutex
              ELSE apc' = "accept" /\ serverClientsMutex' = "free"
    /\ UNCHANGED <<serverSocket, serverAcceptRunning, nextClientId, aconn,
                   backlog, attempts, mpc, aborted, acc>>
    /\ UNCHANGED <<queueVars, codecVars, clientVars>>

\* accept() on the listener hands back a descriptor: the listener is open
\* and an attempt is queued (lines 81 and 90)
acceptReturnsFd == serverSocket = "open" /\ backlog > 0

\* a rejection that does not look at what accept returned
tempFdUnchecked(fd) == TRUE

\* line 82: tempFd >= 0
tempFdValid(fd) == fd

RejectionText == "Connection rejected: maximum connections reached"

\* lines 80-87: at the ceiling: accept, and if a descriptor came back close it
\* and push the rejection; the lock is released by the continue
AcceptReject ==
    /\ ~aborted
    /\ apc = "reject"
    /\ backlog' = IF acceptReturnsFd THEN backlog - 1 ELSE backlog
    /\ acc' = [acc EXCEPT !.last = IF acceptReturnsFd THEN "rejected"
                                   ELSE "reject_failed"]
    /\ IF tempFdValid(acceptReturnsFd)
       THEN Notify("System", RejectionText, 0, Empty, 0)
       ELSE NoNotify
    /\ serverClientsMutex' = "free"
    /\ apc' = "loop"
    /\ UNCHANGED <<conn, serverSocket, serverAcceptRunning, nextClientId,
                   serverClients, aconn, attempts, mpc, aborted>>
    /\ UNCHANGED <<queueRest, codecVars, clientVars>>

\* lines 90-115 and 123-125: accept below the ceiling.  With a descriptor and
\* running still set: the id is taken, the object made, running = true, the
\* receive thread started.  With a descriptor and running cleared: nothing is
\* done with the descriptor.  Without one: EAGAIN loops, any other error
\* (the listener was closed) leaves the loop.
AcceptAccept ==
    /\ ~aborted
    /\ apc = "accept"
    /\ IF acceptReturnsFd
       THEN /\ backlog' = backlog - 1
            /\ IF serverAcceptRunning
               THEN /\ conn' = [conn EXCEPT ![FreeSlot] =
                                   [NewConn("server", nextClientId) EXCEPT
                                       !.running = TRUE, !.rpc = "start"]]
                    /\ nextClientId' = nextId(nextClientId)
                    /\ aconn' = FreeSlot
                    /\ apc' = "insert_lock"
                    /\ acc' = [acc EXCEPT !.last = "admitted"]
               ELSE /\ apc' = "loop"
                    /\ acc' = [acc EXCEPT !.last = "dropped"]
                    /\ UNCHANGED <<conn, nextClientId, aconn>>
       ELSE /\ apc' = IF serverSocket = "open" THEN "loop" ELSE "done"
            /\ acc' = IF serverSocket = "open"
                      THEN [acc EXCEPT !.last = "accept_failed"]
                      ELSE Left([acc EXCEPT !.last = "accept_failed"])
            /\ UNCHANGED <<conn, nextClientId, aconn, backlog>>
    /\ UNCHANGED <<serverSocket, serverAcceptRunning, serverClients,
                   serverClientsMutex, attempts, mpc, aborted>>
    /\ UNCHANGED <<queueVars, codecVars, clientVars>>

\* line 118: lock_guard on clientsMutex
AcceptInsertLock ==
    /\ ~aborted
    /\ apc = "insert_lock"
    /\ serverClientsMutex = "free"
    /\ serverClientsMutex' = "accept"
    /\ apc' = "insert"
    /\ UNCHANGED <<conn, serverSocket, serverAcceptRunning, nextClientId,
                   serverClients, aconn, backlog, attempts, mpc, aborted, acc>>
    /\ UNCHANGED <<queueVars, codecVars, clientVars>>

\* lines 119-120: clients.push_back(clientConn), unlock
AcceptInsert ==
    /\ ~aborted
    /\ apc = "insert"
    /\ serverClients' = Append(serverClients, aconn)
    /\ serverClientsMutex' = "free"
    /\ apc' = "notify"
    /\ UNCHANGED <<conn, serverSocket, serverAcceptRunning, nextClientId,
                   aconn, backlog, attempts, mpc, aborted, acc>>
    /\ UNCHANGED <<queueVars, codecVars, clientVars>>

\* line 122 and the end of the block: the connect notification, then the
\* local clientConn goes out of scope
AcceptNotify ==
    /\ ~aborted
    /\ apc = "notify"
    /\ Notify("System", "Client connected", conn[aconn].id, Empty, 0)
    /\ aconn' = 0
    /\ conn' = Reap(conn, serverClients, 0)
    /\ apc' = "loop"
    /\ UNCHANGED <<serverSocket, serverAcceptRunning, nextClientId,
                   serverClients, serverClientsMutex, backlog, attempts, mpc,
                   aborted, acc>>
    /\ UNCHANGED <<queueRest, codecVars, clientVars>>

serverAcceptThread ==
    \/ AcceptLoop \/ AcceptPoll \/ AcceptPollError \/ AcceptLock
    \/ AcceptCheck \/ AcceptReject \/ AcceptAccept \/ AcceptInsertLock
    \/ AcceptInsert \/ AcceptNotify

\* accept() fails on the open listener although poll reported it readable:
\* the queued attempts were withdrawn (EAGAIN / EWOULDBLOCK), the attempt at
\* the head of the queue was aborted (ECONNABORTED), or the process has no
\* descriptor left (EMFILE)
AcceptErrnos == {"EAGAIN", "ECONNABORTED", "EMFILE"}

\* what is left in the listen queue after accept failed with errno e
QueueAfter(e, n) ==
    CASE e = "EAGAIN" -> 0
      [] e = "ECONNABORTED" -> n - 1
      [] OTHER -> n

\* lines 80-87 with tempFd < 0: nothing is closed or pushed, and the
\* continue is taken whatever errno is
AcceptRejectError ==
    /\ ~aborted
    /\ apc = "reject"
    /\ serverSocket = "open"
    /\ \E e \in AcceptErrnos :
          /\ backlog' = QueueAfter(e, backlog)
          /\ acc' = [acc EXCEPT !.last = e]
    /\ serverClientsMutex' = "free"
    /\ apc' = "loop"
    /\ UNCHANGED <<conn, serverSocket, serverAcceptRunning, nextClientId,
                   serverClients, aconn, attempts, mpc, aborted>>
    /\ UNCHANGED <<queueVars, codecVars, clientVars>>

\* lines 90-91 and 123-125 with clientSocketFd < 0: EAGAIN / EWOULDBLOCK
\* falls through to the next iteration, any other errno breaks
AcceptAcceptError ==
    /\ ~aborted
    /\ apc = "accept"
    /\ serverSocket = "open"
    /\ \E e \in AcceptErrnos :
          /\ backlog' = QueueAfter(e, backlog)
          /\ apc' = IF e = "EAGAIN" THEN "loop" ELSE "done"
          /\ acc' = IF e = "EAGAIN" THEN [acc EXCEPT !.last = e]
                    ELSE Left([acc EXCEPT !.last = e])
    /\ UNCHANGED <<conn, serverSocket, serverAcceptRunning, nextClientId,
                   serverClients, serverClientsMutex, aconn, attempts, mpc,
                   aborted>>
    /\ UNCHANGED <<queueVars, codecVars, clientVars>>

(***************************************************************************)
(* The main thread, src/src/main.cpp: one pass of the event loop pops the  *)
(* queue, purges both registries, serves one menu choice and completes a   *)
(* pending connect.                                                        *)
(***************************************************************************)
\* lines 84-97: while (receivedMessages.pop(source, message))
MainPop ==
    /\ ~aborted
    /\ mpc = "pop"
    /\ IF messages_ = <<>>
       THEN mpc' = "purge_server" /\ UNCHANGED messages_
       ELSE mpc' = "pop" /\ messages_' = queuePop(messages_)
    /\ UNCHANGED <<conn, serverSocket, serverAcceptRunning, nextClientId,
                   serverClients, serverClientsMutex, apc, aconn, backlog,
                   attempts, aborted, acc>>
    /\ UNCHANGED <<pushOrder, queueRest, codecVars, clientVars>>

\* lines 99-109: the purge of the server registry under its lock
MainPurgeServer ==
    /\ ~aborted
    /\ mpc = "purge_server"
    /\ serverClientsMutex = "free"
    /\ LET reg == Purge(serverClients, conn)
       IN  /\ serverClients' = reg
           /\ conn' = Reap(conn, reg, aconn)
    /\ mpc' = "purge_client"
    /\ UNCHANGED <<serverSocket, serverAcceptRunning, nextClientId,
                   serverClientsMutex, apc, aconn, backlog, attempts, aborted,
                   acc>>
    /\ UNCHANGED <<queueVars, codecVars, clientVars>>

\* line 124 and 483: no input; the loop sleeps 1 ms and goes on
MainNoInput ==
    /\ ~aborted
    /\ mpc = "menu"
    /\ mpc' = "complete"
    /\ UNCHANGED <<conn, serverSocket, serverAcceptRunning, nextClientId,
                   serverClients, serverClientsMutex, apc, aconn, backlog,
                   attempts, aborted, acc>>
    /\ UNCHANGED <<queueVars, codecVars, clientVars>>

\* lines 124-129 and part_004:6-16: input is waiting and the menu is not yet
\* displayed: displayMenu reads serverClients.empty() and size() and iterates
\* clientConnections; it takes neither registry lock
MainDisplayMenu ==
    /\ ~aborted
    /\ mpc = "menu"
    /\ mpc' = "input"
    /\ UNCHANGED <<conn, serverSocket, serverAcceptRunning, nextClientId,
                   serverClients, serverClientsMutex, apc, aconn, backlog,
                   attempts, aborted, acc>>
    /\ UNCHANGED <<queueVars, codecVars, clientVars>>

\* lines 145-171, option 1: with no server socket, startServer, the flag, the
\* id counter reset and the accept thread
MainStartServer ==
    /\ ~aborted
    /\ mpc \in {"menu", "input"}
    /\ serverSocket = "null"
    /\ serverSocket' = "open"
    /\ serverAcceptRunning' = TRUE
    /\ nextClientId' = 1
    /\ apc' = "loop"
    /\ mpc' = "complete"
    /\ UNCHANGED <<conn, serverClients, serverClientsMutex, aconn, backlog,
                   attempts, aborted, acc>>
    /\ UNCHANGED <<queueVars, codecVars, clientVars>>

\* line 320, option 5: serverAcceptRunning = false
MainStopFlag ==
    /\ ~aborted
    /\ mpc \in {"menu", "input"}
    /\ serverSocket # "null"
    /\ serverAcceptRunning' = FALSE
    /\ mpc' = "stop_close"
    /\ UNCHANGED <<conn, serverSocket, nextClientId, serverClients,
                   serverClientsMutex, apc, aconn, backlog, attempts, aborted,
                   acc>>
    /\ UNCHANGED <<queueVars, codecVars, clientVars>>

\* lines 321-323: close(*serverSocket); queued attempts are reset
MainStopClose ==
    /\ ~aborted
    /\ mpc = "stop_close"
    /\ serverSocket' = "closed"
    /\ backlog' = 0
    /\ mpc' = "stop_flags"
    /\ UNCHANGED <<conn, serverAcceptRunning, nextClientId, serverClients,
                   serverClientsMutex, apc, aconn, attempts, aborted, acc>>
    /\ UNCHANGED <<queueVars, codecVars, clientVars>>

\* lines 326-332: under the lock, running = false and connected = false for
\* every registry entry
MainStopFlags ==
    /\ ~aborted
    /\ mpc = "stop_flags"
    /\ serverClientsMutex = "free"
    /\ conn' = [c \in Conns |->
                   IF c \in Range(serverClients)
                   THEN [SetConnected(conn[c], FALSE) EXCEPT !.running = FALSE]
                   ELSE conn[c]]
    /\ mpc' = "stop_join_accept"
    /\ UNCHANGED <<serverSocket, serverAcceptRunning, nextClientId,
                   serverClients, serverClientsMutex, apc, aconn, backlog,
                   attempts, aborted, acc>>
    /\ UNCHANGED <<queueVars, codecVars, clientVars>>

\* lines 335-337: join the accept thread
MainStopJoinAccept ==
    /\ ~aborted
    /\ mpc = "stop_join_accept"
    /\ apc = "done"
    /\ apc' = "none"
    /\ mpc' = "stop_lock"
    /\ UNCHANGED <<conn, serverSocket, serverAcceptRunning, nextClientId,
                   serverClients, serverClientsMutex, aconn, backlog, attempts,
                   aborted, acc>>
    /\ UNCHANGED <<queueVars, codecVars, clientVars>>

\* line 341: the lock for the joins
MainStopLock ==
    /\ ~aborted
    /\ mpc = "stop_lock"
    /\ serverClientsMutex = "free"
    /\ serverClientsMutex' = "main"
    /\ mpc' = "stop_join"
    /\ UNCHANGED <<conn, serverSocket, serverAcceptRunning, nextClientId,
                   serverClients, apc, aconn, backlog, attempts, aborted, acc>>
    /\ UNCHANGED <<queueVars, codecVars, clientVars>>

\* lines 342-348: join every registry entry's receive thread, clear the
\* registry (the objects are destroyed), unlock
MainStopJoin ==
    /\ ~aborted
    /\ mpc = "stop_join"
    /\ \A c \in Range(serverClients) : conn[c].rpc = "done"
    /\ serverClients' = <<>>
    /\ conn' = Reap([c \in Conns |->
                        IF c \in Range(serverClients)
                        THEN [conn[c] EXCEPT !.joined = TRUE] ELSE conn[c]],
                    <<>>, aconn)
    /\ serverClientsMutex' = "free"
    /\ mpc' = "stop_reset"
    /\ UNCHANGED <<serverSocket, serverAcceptRunning, nextClientId, apc, aconn,
                   backlog, attempts, aborted, acc>>
    /\ UNCHANGED <<queueVars, codecVars, clientVars>>

\* line 351: serverSocket.reset()
MainStopReset ==
    /\ ~aborted
    /\ mpc = "stop_reset"
    /\ serverSocket' = "null"
    /\ mpc' = "complete"
    /\ UNCHANGED <<conn, serverAcceptRunning, nextClientId, serverClients,
                   serverClientsMutex, apc, aconn, backlog, attempts, aborted,
                   acc>>
    /\ UNCHANGED <<queueVars, codecVars, clientVars>>

MainServer ==
    \/ MainPop \/ MainPurgeServer \/ MainNoInput \/ MainStartServer
    \/ MainStopFlag \/ MainStopClose \/ MainStopFlags \/ MainStopJoinAccept
    \/ MainStopLock \/ MainStopJoin \/ MainStopReset

(***************************************************************************)
(* The client side: clientReceiveThread and clientConnectThread            *)
(* (src/unnamed/part_002) and the main thread's options 2, 4 and 6.  A     *)
(* client-role object is held by the client registry and by main's locals; *)
(* its receive thread holds references to the object's members only.       *)
(***************************************************************************)
serverRest ==
    <<serverSocket, serverAcceptRunning, nextClientId, serverClients,
      serverClientsMutex, apc, aconn, backlog, acc>>

pendingVars ==
    <<pendingClientSocket, pendingConnectionId, pendingConnectSuccess,
      connectComplete>>

\* the configured deadline of a connect attempt, in ms (main passes 5 s)
TimeoutMs == 300

\* part_002:118: the longest poll slice, in ms
PollSliceMs == 100

\* the grain of the modelled clock, in ms
Tick == 50

\* a connect thread that was never started
NoConnect ==
    [sock |-> "none", elapsed |-> 0, slice |-> 0, successWrites |-> 0,
     completeWrites |-> 0, cause |-> "none", stopSeen |-> 0,
     result |-> FALSE]

\* main.cpp:201-205: the thread is started on a valid or invalid descriptor
StartConnect(sock) == [NoConnect EXCEPT !.sock = sock]

InitClient ==
    /\ clientConnections = <<>>
    /\ nextClientConnectionId = 1
    /\ pendingClientSocket = "null"
    /\ pendingConnectionId = 0
    /\ pendingConnectSuccess = FALSE
    /\ connectComplete = FALSE
    /\ clientConnectRunning = FALSE
    /\ cpc = "none"
    /\ ct = NoConnect
    /\ toDisconnect = {}
    /\ stopAll = FALSE
    /\ selectedClient = 0

\* part_002:18-23: the descriptor is valid, connected = true
CliRecvStart(c) ==
    /\ ~aborted
    /\ conn[c].role = "client" /\ conn[c].rpc = "start"
    /\ conn' = [conn EXCEPT ![c] = [SetConnected(@, TRUE) EXCEPT !.rpc = "loop"]]
    /\ NoNotify
    /\ UNCHANGED <<netRest, aborted, queueRest, codecVars, clientVars>>

\* part_002:26: the loop condition
CliRecvLoop(c) ==
    /\ ~aborted
    /\ conn[c].role = "client" /\ conn[c].rpc = "loop"
    /\ conn' = [conn EXCEPT ![c].rpc =
                   IF loopContinues(conn[c].running) /\ conn[c].connected
                   THEN "recv"
                   ELSE "exit"]
    /\ NoNotify
    /\ UNCHANGED <<netRest, aborted, queueRest, codecVars, clientVars>>

\* part_002:27-30: one receiveFramedMessage; a decoded frame is pushed
CliRecvCycle(c) ==
    /\ ~aborted
    /\ conn[c].role = "client" /\ conn[c].rpc = "recv"
    /\ LET r == receiveFramedMessage(
                    [conn[c] EXCEPT !.stopPolls =
                                        PollsAfterStop(@, conn[c].running)])
       IN  IF r.ok
           THEN /\ conn' = [conn EXCEPT ![c] = [r.k EXCEPT !.rpc = "loop"]]
                /\ Notify("Client", "[CLIENT] receives [SERVER] message", 0,
                          r.k.message, c)
           ELSE /\ conn' = [conn EXCEPT ![c] = [r.k EXCEPT !.rpc = "probe"]]
                /\ NoNotify
    /\ UNCHANGED <<netRest, aborted, queueRest, codecVars, clientVars>>

\* part_002:31-42: the zero-timeout probe for POLLERR | POLLHUP
CliRecvProbe(c) ==
    /\ ~aborted
    /\ conn[c].role = "client" /\ conn[c].rpc = "probe"
    /\ IF PollHupErr(conn[c])
       THEN /\ conn' = [conn EXCEPT ![c] =
                           [SetConnected(@, FALSE) EXCEPT !.rpc = "exit"]]
            /\ Notify("System", "Server disconnected", 0, Empty, c)
       ELSE /\ conn' = [conn EXCEPT ![c].rpc = "loop"]
            /\ NoNotify
    /\ UNCHANGED <<netRest, aborted, queueRest, codecVars, clientVars>>

\* part_002:45: connected = false, the thread returns
CliRecvExit(c) ==
    /\ ~aborted
    /\ conn[c].role = "client" /\ conn[c].rpc = "exit"
    /\ conn' = [conn EXCEPT ![c] = Left([SetConnected(@, FALSE) EXCEPT !.rpc = "done"])]
    /\ NoNotify
    /\ UNCHANGED <<netRest, aborted, queueRest, codecVars, clientVars>>

clientReceiveThread(c) ==
    \/ CliRecvStart(c) \/ CliRecvLoop(c) \/ CliRecvCycle(c)
    \/ CliRecvProbe(c) \/ CliRecvExit(c)

(***************************************************************************)
(* clientConnectThread, src/unnamed/part_002:48-141.  ct.elapsed is        *)
(* steady_clock::now() - startTime in ms; time passes inside poll.         *)
(***************************************************************************)
connectRest ==
    <<clientConnections, nextClientConnectionId, pendingClientSocket,
      pendingConnectionId, clientConnectRunning, toDisconnect, stopAll,
      selectedClient>>

\* a completion after which the thread goes on looping
ReturnMissing == "wait"

\* the return that follows every completion (lines 57, 63, 89, 95, 113, 121,
\* 133) and the end of the function
Return == "finished"

\* the completion flag stored before the success flag
completeBeforeSuccess == FALSE

\* lines 55-56 (and 61-62, 87-88, 93-94, 111-112, 119-120, 126-132,
\* 139-140): connectSuccess is assigned first, connectComplete second
successFirst == TRUE

\* the first of the two stores of a completion: connectSuccess = ok (a plain
\* bool); ct.result is the outcome the path has decided
Complete(ok, cause, elapsed) ==
    /\ IF successFirst
       THEN /\ pendingConnectSuccess' = ok
            /\ UNCHANGED connectComplete
            /\ ct' = [ct EXCEPT !.successWrites = @ + 1, !.cause = cause,
                                !.elapsed = elapsed, !.result = ok]
       ELSE /\ connectComplete' = TRUE
            /\ UNCHANGED pendingConnectSuccess
            /\ ct' = [ct EXCEPT !.completeWrites = @ + 1, !.cause = cause,
                                !.elapsed = elapsed, !.result = ok]
    /\ cpc' = "publish"

\* lines 54-106: the descriptor check, makeNonBlocking, the socket options
\* and the non-blocking connect, which succeeds at once, fails at once or is
\* in progress (startTime is taken)
ConnBegin ==
    /\ ~aborted
    /\ cpc = "run"
    /\ IF ct.sock = "invalid"
       THEN Complete(FALSE, "invalid", 0)
       ELSE \/ Complete(FALSE, "nonblock_failed", 0)
            \/ Complete(TRUE, "immediate", 0)
            \/ Complete(FALSE, "hard_failure", 0)
            \/ /\ cpc' = "wait"
               /\ ct' = [ct EXCEPT !.elapsed = 0]
               /\ UNCHANGED <<pendingConnectSuccess, connectComplete>>
    /\ UNCHANGED connectRest
    /\ UNCHANGED <<netVars, queueVars, codecVars>>

\* a deadline test that gives up one poll slice early
deadlineReachedEarly(remainingMs) == remainingMs <= PollSliceMs

\* line 112: remainingMs <= 0
deadlineReached(remainingMs) == remainingMs <= 0

\* lines 108-116 and 139-140: while (running): the remaining time; at or past
\* the deadline the attempt has failed; a cleared running ends the loop
ConnLoop ==
    /\ ~aborted
    /\ cpc = "wait"
    /\ IF ~clientConnectRunning
       THEN Complete(FALSE, "stopped", ct.elapsed)
       ELSE LET remainingMs == TimeoutMs - ct.elapsed
            IN  IF deadlineReached(remainingMs)
                THEN Complete(FALSE, "deadline", ct.elapsed)
                ELSE /\ cpc' = "poll"
                     /\ ct' = [ct EXCEPT !.slice =
                                  IF remainingMs < PollSliceMs THEN remainingMs
                                  ELSE PollSliceMs]
                     /\ UNCHANGED <<pendingConnectSuccess, connectComplete>>
    /\ UNCHANGED connectRest
    /\ UNCHANGED <<netVars, queueVars, codecVars>>

\* the times, within a slice, at which poll can return with an event
Within(slice) == {d \in {0, Tick, 2 * Tick} : d <= slice} \cup {slice}

\* lines 118-136: poll(POLLOUT) for the slice.  It fails; or it reports
\* POLLOUT and SO_ERROR tells success from failure; or it times out (the
\* wake-up may be one tick late); or it reports other flags only, and the
\* loop goes round
ConnPoll ==
    /\ ~aborted
    /\ cpc = "poll"
    /\ LET stop == IF clientConnectRunning THEN ct.stopSeen
                   ELSE ct.stopSeen + 1
       IN
       \/ \E d \in Within(ct.slice) :
             \/ Complete(FALSE, "poll_error", ct.elapsed + d)
             \/ Complete(TRUE, "writable", ct.elapsed + d)
             \/ Complete(FALSE, "socket_error", ct.elapsed + d)
       \/ \E late \in {0, Tick} :
             /\ cpc' = "wait"
             /\ ct' = [ct EXCEPT !.elapsed = @ + ct.slice + late,
                                 !.stopSeen = stop]
             /\ UNCHANGED <<pendingConnectSuccess, connectComplete>>
       \/ \E d \in Within(ct.slice) \ {0} :
             /\ cpc' = "wait"
             /\ ct' = [ct EXCEPT !.elapsed = @ + d, !.stopSeen = stop]
             /\ UNCHANGED <<pendingConnectSuccess, connectComplete>>
    /\ UNCHANGED connectRest
    /\ UNCHANGED <<netVars, queueVars, codecVars>>

\* the second store, connectComplete = true (an atomic store), and the
\* return
ConnPublish ==
    /\ ~aborted
    /\ cpc = "publish"
    /\ IF successFirst
       THEN /\ connectComplete' = TRUE
            /\ UNCHANGED pendingConnectSuccess
            /\ ct' = [ct EXCEPT !.completeWrites = @ + 1]
       ELSE /\ pendingConnectSuccess' = ct.result
            /\ UNCHANGED connectComplete
            /\ ct' = [ct EXCEPT !.successWrites = @ + 1]
    /\ cpc' = Return
    /\ UNCHANGED connectRest
    /\ UNCHANGED <<netVars, queueVars, codecVars>>

clientConnectThread == ConnBegin \/ ConnLoop \/ ConnPoll \/ ConnPublish

\* main.cpp:450 (and 545): the owner clears the connect thread's running flag
OwnerStopsConnect ==
    /\ ~aborted
    /\ cpc \in {"run", "wait", "poll", "publish"}
    /\ clientConnectRunning
    /\ clientConnectRunning' = FALSE
    /\ UNCHANGED <<clientConnections, nextClientConnectionId, pendingVars,
                   cpc, ct, toDisconnect, stopAll, selectedClient>>
    /\ UNCHANGED <<netVars, queueVars, codecVars>>

\* clientConnectThread called on its own: on a valid or an invalid
\* descriptor, the owner's flags as option 2 sets them (main.cpp:196-205)
InitConnect ==
    /\ clientConnections = <<>>
    /\ nextClientConnectionId = 2
    /\ pendingClientSocket = "set"
    /\ pendingConnectionId = 1
    /\ pendingConnectSuccess = FALSE
    /\ connectComplete = FALSE
    /\ clientConnectRunning = TRUE
    /\ cpc = "run"
    /\ ct \in {StartConnect("valid"), StartConnect("invalid")}
    /\ toDisconnect = {}
    /\ stopAll = FALSE
    /\ selectedClient = 0

NextConnect == clientConnectThread \/ OwnerStopsConnect

\* main.cpp:111-121: the purge of the client registry; an object dropped is
\* destroyed, its destructor joining the receive thread
MainPurgeClient ==
    /\ ~aborted
    /\ mpc = "purge_client"
    /\ LET reg == Purge(clientConnections, conn)
           dropped == Range(clientConnections) \ Range(reg)
       IN  /\ \A c \in dropped : conn[c].rpc = "done"
           /\ clientConnections' = reg
           /\ conn' = [c \in Conns |->
                          IF c \in dropped THEN Destroy(conn[c]) ELSE conn[c]]
    /\ mpc' = "menu"
    /\ UNCHANGED <<serverRest, attempts, aborted>>
    /\ UNCHANGED <<nextClientConnectionId, pendingVars, clientConnectRunning,
                   cpc, ct, toDisconnect, stopAll, selectedClient>>
    /\ UNCHANGED <<queueVars, codecVars>>

\* main.cpp:173-210, option 2: a socket, the next connection id, the pending
\* state and the connect thread; assigning to a thread handle that is still
\* joinable ends in std::terminate
MainConnect ==
    /\ ~aborted
    /\ mpc \in {"menu", "input"}
    /\ attempts < MaxAttempts
    /\ attempts' = attempts + 1
    /\ nextClientConnectionId' = nextId(nextClientConnectionId)
    /\ clientConnectRunning' = TRUE
    /\ connectComplete' = FALSE
    /\ pendingClientSocket' = "set"
    /\ pendingConnectSuccess' = FALSE
    /\ pendingConnectionId' = nextClientConnectionId
    /\ IF cpc = "none"
       THEN /\ cpc' = "run" /\ ct' = StartConnect("valid")
            /\ mpc' = "complete" /\ UNCHANGED aborted
       ELSE aborted' = TRUE /\ UNCHANGED <<cpc, ct, mpc>>
    /\ UNCHANGED <<conn, serverRest>>
    /\ UNCHANGED <<clientConnections, toDisconnect, stopAll, selectedClient>>
    /\ UNCHANGED <<queueVars, codecVars>>

\* the registry entries options 4 and 6 offer: conn->connected && conn->socket
connectedClients == {c \in Range(clientConnections) : conn[c].connected}

\* main.cpp:248-293, option 4: the connected entries are listed and one is
\* picked
MainSendSelect ==
    /\ ~aborted
    /\ mpc \in {"menu", "input"}
    /\ IF connectedClients = {}
       THEN mpc' = "complete" /\ UNCHANGED selectedClient
       ELSE mpc' = "send" /\ \E c \in connectedClients : selectedClient' = c
    /\ UNCHANGED <<conn, serverRest, attempts, aborted>>
    /\ UNCHANGED <<clientConnections, nextClientConnectionId, pendingVars,
                   clientConnectRunning, cpc, ct, toDisconnect, stopAll>>
    /\ UNCHANGED <<queueVars, codecVars>>

\* what sendToServer can return for object k: true while the peer reads,
\* either value once the peer has closed, false on a closed descriptor
sendToServer(k) ==
    IF k.fd # "open" THEN {FALSE}
    ELSE IF k.peer = "open" THEN {TRUE}
    ELSE BOOLEAN

\* main.cpp:295-309: the message is read (an empty one ends the option) and
\* sent; a failed send sets connected = false
MainSend ==
    /\ ~aborted
    /\ mpc = "send"
    /\ \E empty \in BOOLEAN :
          \E ok \in sendToServer(conn[selectedClient]) :
             conn' = IF empty \/ ok THEN conn
                     ELSE [conn EXCEPT ![selectedClient] = SetConnected(@, FALSE)]
    /\ selectedClient' = 0
    /\ mpc' = "complete"
    /\ UNCHANGED <<serverRest, attempts, aborted>>
    /\ UNCHANGED <<clientConnections, nextClientConnectionId, pendingVars,
                   clientConnectRunning, cpc, ct, toDisconnect, stopAll>>
    /\ UNCHANGED <<queueVars, codecVars>>

\* main.cpp:356-409, option 6: the connected entries are listed; one of them
\* or "Disconnect all" is picked
MainStopClientSelect ==
    /\ ~aborted
    /\ mpc \in {"menu", "input"}
    /\ IF connectedClients = {}
       THEN mpc' = "complete" /\ UNCHANGED <<toDisconnect, stopAll>>
       ELSE /\ mpc' = "stop_client_flags"
            /\ \/ toDisconnect' = connectedClients /\ stopAll' = TRUE
               \/ \E c \in connectedClients :
                     toDisconnect' = {c} /\ stopAll' = FALSE
    /\ UNCHANGED <<conn, serverRest, attempts, aborted>>
    /\ UNCHANGED <<clientConnections, nextClientConnectionId, pendingVars,
                   clientConnectRunning, cpc, ct, selectedClient>>
    /\ UNCHANGED <<queueVars, codecVars>>

\* main.cpp:411-418: running = false, connected = false and close for every
\* object picked
MainStopClientFlags ==
    /\ ~aborted
    /\ mpc = "stop_client_flags"
    /\ conn' = [c \in Conns |->
                   IF c \in toDisconnect
                   THEN [SetConnected(conn[c], FALSE) EXCEPT
                            !.running = FALSE, !.fd = "closed",
                            !.closes = @ + 1]
                   ELSE conn[c]]
    /\ mpc' = "stop_client_erase"
    /\ UNCHANGED <<serverRest, attempts, aborted>>
    /\ UNCHANGED clientVars
    /\ UNCHANGED <<queueVars, codecVars>>

\* the client-role objects no registry entry and no local of main holds
Orphans(reg) ==
    {c \in Conns : /\ conn[c].role = "client" /\ conn[c].life = "live"
                   /\ c \notin Range(reg) /\ c \notin toDisconnect}

\* main.cpp:420-434: the picked entry is erased by id, or the registry is
\* cleared; the destructor of an object that was not picked and is dropped by
\* the clear sets running = false and connected = false, closes the
\* descriptor and then waits for the receive thread
MainStopClientErase ==
    /\ ~aborted
    /\ mpc = "stop_client_erase"
    /\ LET reg == IF stopAll THEN <<>>
                  ELSE SelectSeq(clientConnections,
                                 LAMBDA c : c \notin toDisconnect)
       IN  /\ clientConnections' = reg
           /\ conn' = [c \in Conns |->
                          IF c \in Orphans(reg) THEN DtorBegin(conn[c])
                          ELSE conn[c]]
    /\ mpc' = "stop_client_join"
    /\ UNCHANGED <<serverRest, attempts, aborted>>
    /\ UNCHANGED <<nextClientConnectionId, pendingVars, clientConnectRunning,
                   cpc, ct, toDisconnect, stopAll, selectedClient>>
    /\ UNCHANGED <<queueVars, codecVars>>

\* main.cpp:436-450: the receive threads of the objects picked are joined
\* (an object dropped by the clear was joined by its destructor), then
\* clientConnectRunning = false
MainStopClientJoin ==
    /\ ~aborted
    /\ mpc = "stop_client_join"
    /\ \A c \in toDisconnect \cup Orphans(clientConnections) :
          conn[c].rpc = "done"
    /\ conn' = [c \in Conns |->
                   IF c \in Orphans(clientConnections) THEN DtorEnd(conn[c])
                   ELSE IF c \in toDisconnect
                   THEN [conn[c] EXCEPT !.joined = TRUE]
                   ELSE conn[c]]
    /\ clientConnectRunning' = FALSE
    /\ mpc' = "stop_client_connect"
    /\ UNCHANGED <<serverRest, attempts, aborted>>
    /\ UNCHANGED <<clientConnections, nextClientConnectionId, pendingVars,
                   cpc, ct, toDisconnect, stopAll, selectedClient>>
    /\ UNCHANGED <<queueVars, codecVars>>

\* main.cpp:451-455: the connect thread is joined; the locals go out of scope
\* and the objects picked are destroyed
MainStopClientJoinConnect ==
    /\ ~aborted
    /\ mpc = "stop_client_connect"
    /\ cpc \in {"none", "finished"}
    /\ cpc' = "none"
    /\ conn' = [c \in Conns |->
                   IF c \in toDisconnect THEN Destroy(conn[c]) ELSE conn[c]]
    /\ toDisconnect' = {}
    /\ stopAll' = FALSE
    /\ mpc' = "complete"
    /\ UNCHANGED <<serverRest, attempts, aborted>>
    /\ UNCHANGED <<clientConnections, nextClientConnectionId, pendingVars,
                   clientConnectRunning, ct, selectedClient>>
    /\ UNCHANGED <<queueVars, codecVars>>

\* main.cpp:490-534: a finished connect attempt is taken up: the connect
\* thread is joined and, if it succeeded, the ClientConnection is made with
\* running = true and connected = true, its receive thread started and the
\* object put in the client registry; the pending state is cleared
MainComplete ==
    /\ ~aborted
    /\ mpc = "complete"
    /\ IF connectComplete /\ pendingClientSocket = "set"
       THEN /\ cpc \in {"none", "finished"}
            /\ cpc' = "none"
            /\ IF pendingConnectSuccess
               THEN /\ conn' = [conn EXCEPT ![FreeSlot] =
                                   [NewConn("client", pendingConnectionId)
                                       EXCEPT !.running = TRUE,
                                              !.connected = TRUE,
                                              !.rpc = "start"]]
                    /\ clientConnections' = Append(clientConnections, FreeSlot)
               ELSE UNCHANGED <<conn, clientConnections>>
            /\ pendingClientSocket' = "null"
            /\ pendingConnectionId' = 0
            /\ connectComplete' = FALSE
       ELSE UNCHANGED <<conn, clientConnections, cpc, pendingClientSocket,
                        pendingConnectionId, connectComplete>>
    /\ mpc' = "pop"
    /\ UNCHANGED <<serverRest, attempts, aborted>>
    /\ UNCHANGED <<nextClientConnectionId, pendingConnectSuccess,
                   clientConnectRunning, ct, toDisconnect, stopAll,
                   selectedClient>>
    /\ UNCHANGED <<queueVars, codecVars>>

MainClient ==
    \/ MainPop \/ MainPurgeServer \/ MainPurgeClient \/ MainNoInput
    \/ MainConnect \/ MainSendSelect \/ MainSend \/ MainStopClientSelect
    \/ MainStopClientFlags \/ MainStopClientErase \/ MainStopClientJoin
    \/ MainStopClientJoinConnect \/ MainComplete

(***************************************************************************)
(* Peers                                                                    *)
(***************************************************************************)
\* a peer connects to the listening port: the attempt is queued
PeerConnect ==
    /\ ~aborted
    /\ attempts < MaxAttempts
    /\ serverSocket = "open"
    /\ backlog' = backlog + 1
    /\ attempts' = attempts + 1
    /\ UNCHANGED <<conn, serverSocket, serverAcceptRunning, nextClientId,
                   serverClients, serverClientsMutex, apc, aconn, mpc, aborted,
                   acc>>
    /\ UNCHANGED <<queueVars, codecVars, clientVars>>

\* the peer of an accepted connection closes its descriptor; whether poll
\* then reports POLLHUP / POLLERR depends on the platform and on how the peer
\* closed (an orderly close under Linux reports POLLIN alone)
PeerClose(c) ==
    /\ ~aborted
    /\ conn[c].life = "live" /\ conn[c].peer = "open"
    /\ \E h \in BOOLEAN :
          conn' = [conn EXCEPT ![c].peer = "closed", ![c].hup = h]
    /\ UNCHANGED <<netRest, aborted>>
    /\ UNCHANGED <<queueVars, codecVars, clientVars>>

NextServer ==
    \/ serverAcceptThread
    \/ \E c \in Conns : serverReceiveThread(c)
    \/ MainServer
    \/ MainPurgeClient
    \/ MainComplete
    \/ PeerConnect
    \/ \E c \in Conns : PeerClose(c)

\* the server on a system where accept() can fail
NextAcceptErrors == NextServer \/ AcceptRejectError \/ AcceptAcceptError

NextClient ==
    \/ MainClient
    \/ clientConnectThread
    \/ \E c \in Conns : clientReceiveThread(c)
    \/ \E c \in Conns : PeerClose(c)

(***************************************************************************)
(* Receiving: an admitted client sends bytes to the server.  The server is *)
(* started, client 1 is admitted and registered and its receive thread is  *)
(* about to run; no further connection attempt is made, so the accept      *)
(* thread only goes round its poll.  Main stops the server (option 5) at   *)
(* any time.                                                               *)
(***************************************************************************)
MaxSends == 2
FloodFrames == 131

RECURSIVE Repeat(_, _)
\* n copies of the byte string s
Repeat(s, n) ==
    IF n = 0 THEN Empty
    ELSE LET h == Repeat(s, n \div 2)
         IN  IF n % 2 = 0 THEN BCat(h, h) ELSE BCat(BCat(h, h), s)

\* what one send of the peer puts on the connection: a frame; two frames; a
\* header declaring more than the cap with a frame behind it; the first
\* three bytes of a header
Streams ==
    {framed(Fill(65, 1)),
     BCat(framed(Fill(65, 1)), framed(Fill(66, 2))),
     BCat(htonl(1024 * 1024 + 1), framed(Fill(65, 1))),
     BTake(framed(Fill(65, 1)), 3),
     BCat(htonl(0), framed(Fill(65, 1)))}

\* the payloads of a stream that consists of whole frames as
\* sendFramedMessage builds them (none for the other streams)
FramesIn(s) ==
    IF s = framed(Fill(65, 1)) THEN <<Fill(65, 1)>>
    ELSE IF s = BCat(framed(Fill(65, 1)), framed(Fill(66, 2)))
    THEN <<Fill(65, 1), Fill(66, 2)>>
    ELSE <<>>

\* a peer that outpaces the receive loop: a run of one-byte frames, which
\* the loop takes one per cycle, and two frames of the largest size behind
\* them
Flood ==
    BCat(Repeat(framed(Fill(1, 1)), FloodFrames),
         BCat(framed(Fill(0, 1024 * 1024)), framed(Fill(0, 1024 * 1024))))

PeerSend(c) ==
    /\ ~aborted
    /\ conn[c].life = "live" /\ conn[c].peer = "open"
    /\ conn[c].sends < MaxSends
    /\ \E s \in Streams :
          conn' = [conn EXCEPT ![c].inbox = BCat(@, s), ![c].sends = @ + 1,
                               ![c].sentFrames = @ \o FramesIn(s),
                               ![c].framesOnly = @ /\ FramesIn(s) # <<>>]
    /\ UNCHANGED <<netRest, aborted>>
    /\ UNCHANGED <<queueVars, codecVars, clientVars>>

PeerFlood(c) ==
    /\ ~aborted
    /\ conn[c].life = "live" /\ conn[c].peer = "open"
    /\ conn[c].sends = 0
    /\ conn' = [conn EXCEPT ![c].inbox = Flood, ![c].sends = MaxSends]
    /\ UNCHANGED <<netRest, aborted>>
    /\ UNCHANGED <<queueVars, codecVars, clientVars>>

\* the notification the accept thread pushed when it admitted client 1
\* (part_006:122), which main has popped since
FirstAdmitted ==
    [source |-> "System",
     message |-> [text |-> "Client connected", id |-> 1, payload |-> Empty],
     by |-> 0]

InitReceive ==
    /\ conn = [c \in Conns |->
                  IF c = 1
                  THEN [NewConn("server", 1) EXCEPT !.running = TRUE,
                                                    !.rpc = "start"]
                  ELSE NoConn]
    /\ serverSocket = "open"
    /\ serverAcceptRunning = TRUE
    /\ nextClientId = 2
    /\ serverClients = <<1>>
    /\ serverClientsMutex = "free"
    /\ apc = "loop"
    /\ aconn = 0
    /\ backlog = 0
    /\ attempts = 1
    /\ mpc = "menu"
    /\ aborted = FALSE
    /\ acc = [NoPass EXCEPT !.last = "admitted"]
    /\ messages_ = <<>>
    /\ mutex_ = "free"
    /\ qpc = [t \in QThreads |-> "idle"]
    /\ pushed = [t \in Producers |-> 0]
    /\ pushOrder = <<FirstAdmitted>>
    /\ popped = <<>>
    /\ popOut = [ok |-> FALSE, source |-> "", message |-> 0]
    /\ clears = 0

NextReceive ==
    \/ \E c \in Conns : serverReceiveThread(c)
    \/ \E c \in Conns : PeerSend(c) \/ PeerClose(c)
    \/ AcceptLoop \/ AcceptPoll
    \/ MainStopFlag \/ MainStopClose \/ MainStopFlags \/ MainStopJoinAccept
    \/ MainStopLock \/ MainStopJoin \/ MainStopReset

\* the receive thread of a client that floods the connection
NextFlood ==
    \/ \E c \in Conns : serverReceiveThread(c)
    \/ \E c \in Conns : PeerFlood(c) \/ PeerClose(c)

(***************************************************************************)
(* Properties of the server                                                *)
(***************************************************************************)
\* C6: with ceiling maxConnections handed to serverAcceptThread, the server
\* registry never holds more than maxConnections connections, whatever the
\* interleaving of the accept thread's critical sections with the main
\* thread's purge and its stop-server steps.
C6_AdmissionCeiling == Len(serverClients) <= maxConnections

\* the registry is full, an attempt is queued and the accept thread, having
\* purged, is on the rejecting branch
C6_Witness ==
    /\ Len(serverClients) = maxConnections
    /\ backlog > 0
    /\ apc = "reject"

\* the rejection notifications pushed so far
Rejections(order) ==
    SelectSeq(order, LAMBDA e : e.message.text = RejectionText)

\* the accept thread leaves the at-ceiling branch
LeavesReject == apc = "reject" /\ apc' # "reject"

\* C7 as stated: whenever the accept thread has found the purged registry at
\* the ceiling, it accepts the attempt and closes it, creates no connection,
\* takes no id, inserts nothing and pushes exactly one rejection notification.
C7_RejectionAlways ==
    [][LeavesReject =>
          /\ backlog' = backlog - 1
          /\ pushOrder' = Append(pushOrder, pushOrder'[Len(pushOrder')])
          /\ Len(Rejections(pushOrder')) = Len(Rejections(pushOrder)) + 1
          /\ conn' = conn
          /\ nextClientId' = nextClientId
          /\ serverClients' = serverClients]_vars

\* C7: at the ceiling no connection is created, no id is taken and nothing is
\* inserted; if accept returns a descriptor the attempt is closed and exactly
\* one rejection notification is pushed, and if accept fails (the listener
\* was closed by stop-server in between) nothing is pushed.
C7_RejectionAtCeiling ==
    [][LeavesReject =>
          /\ conn' = conn
          /\ nextClientId' = nextClientId
          /\ serverClients' = serverClients
          /\ IF acceptReturnsFd
             THEN /\ backlog' = backlog - 1
                  /\ pushOrder' = Append(pushOrder, pushOrder'[Len(pushOrder')])
                  /\ Len(Rejections(pushOrder')) =
                         Len(Rejections(pushOrder)) + 1
             ELSE /\ backlog' = backlog
                  /\ pushOrder' = pushOrder]_vars

\* an attempt was rejected with the registry at the ceiling
C7_Witness ==
    /\ acc.last = "rejected"
    /\ apc = "loop"
    /\ Len(serverClients) = maxConnections
    /\ Len(Rejections(pushOrder)) = 1

\* C9: a zero-byte read is handled as peer shutdown: once recv has returned 0
\* and the probe that follows is over, the connection is marked
\* connected = false, one "Client disconnected" notification is pushed and the
\* thread is on its way out, the read not having been tried again.
C9_ZeroByteReadIsShutdown ==
    \A c \in Conns :
        (conn[c].role = "server" /\ conn[c].zeroRead /\ conn[c].rpc # "probe")
            => /\ ~conn[c].connected
               /\ conn[c].rpc \in {"exit", "done"}
               /\ Len(Pushed(c, "Client disconnected")) = 1
               /\ ~conn[c].retried

\* C8 for the server role: once the peer of a live connection has closed its
\* descriptor, the receive thread eventually has set connected = false, has
\* exited and has pushed exactly one "Client disconnected" notification.
C8_DisconnectDetection ==
    \A c \in Conns :
        (conn[c].role = "server" /\ conn[c].peer = "closed")
            ~> /\ ~conn[c].connected
               /\ conn[c].rpc = "done"
               /\ Len(Pushed(c, "Client disconnected")) = 1

\* C10: the connected flag is monotonic: for each connection, once connected
\* has been true and then become false it is never true again, whatever made
\* the receive loop exit and however the thread's start interleaves with the
\* owner's writes.
C10_ConnectedMonotonic ==
    \A c \in Conns : conn[c].fell => ~conn[c].connected

\* C13: every descriptor wrapped in a SocketPtr is closed exactly once: no
\* connection's descriptor number is closed a second time, by an explicit
\* close, by ~ClientConnection or by the handle's deleter.
C13_ClosedOnce ==
    \A c \in Conns : conn[c].closes <= 1

(***************************************************************************)
(* Properties of clientConnectThread                                       *)
(***************************************************************************)
\* C11: completion is signalled exactly once: while the connect thread runs
\* it has written neither flag; once it has returned, by whatever path, it
\* has assigned connectSuccess exactly once and set connectComplete to true
\* exactly once.
C11_CompletionOnce ==
    /\ cpc \in {"run", "wait", "poll"}
          => ct.successWrites = 0 /\ ct.completeWrites = 0 /\ ~connectComplete
    /\ cpc = "finished"
          => ct.successWrites = 1 /\ ct.completeWrites = 1 /\ connectComplete

\* the thread has returned on the deadline path
C11_Witness ==
    cpc = "finished" /\ ct.cause = "deadline" /\ ct.completeWrites = 1

\* a connect in progress fails on the deadline only once the deadline is
\* reached and at most one poll slice after it; the thread never starts a poll
\* at or past the deadline
DeadlineKept ==
    /\ (cpc = "finished" /\ ct.cause = "deadline")
          => /\ ~pendingConnectSuccess
             /\ ct.elapsed >= TimeoutMs
             /\ ct.elapsed <= TimeoutMs + PollSliceMs
    /\ cpc = "poll" => ct.elapsed < TimeoutMs
    /\ cpc = "wait" => ct.elapsed <= TimeoutMs + PollSliceMs

\* C12: a connect that stays in progress with running true completes with
\* connectSuccess = false once the elapsed time has reached the deadline,
\* never before it and at most one poll slice (100 ms) after it; and a
\* connect in progress always completes.
C12_ConnectTimeout ==
    /\ []DeadlineKept
    /\ (cpc \in {"wait", "poll"}) ~> (cpc = "finished")

\* the attempt failed on the deadline, the owner's flag still set, the
\* wake-up of the last poll having been late
C12_Witness ==
    /\ cpc = "finished" /\ ct.cause = "deadline" /\ clientConnectRunning
    /\ ~pendingConnectSuccess
    /\ ct.elapsed > TimeoutMs

(***************************************************************************)
(* Properties of MessageQueue::push and pop                                *)
(***************************************************************************)
\* what one return of pop or push has done, and how long the lock is held
QueueStep ==
    /\ (qpc[Consumer] = "pop" /\ qpc'[Consumer] = "idle" /\ messages_ = <<>>)
          => /\ ~popOut'.ok
             /\ messages_' = messages_
             /\ popOut'.source = popOut.source
             /\ popOut'.message = popOut.message
    /\ \A t \in Producers :
          (qpc[t] = "push" /\ qpc'[t] = "idle")
             => /\ Len(messages_') = Len(messages_) + 1
                /\ SubSeq(messages_', 1, Len(messages_)) = messages_
                /\ messages_'[Len(messages_')] =
                      [source |-> t, message |-> pushed[t] + 1]
    /\ mutex_ # "free" => mutex_' = "free"

\* C19: the queue never makes a caller wait for data: a pop that holds the
\* lock can return whether or not the queue is empty; on an empty queue it
\* returns false and leaves the queue and both outputs as they were; a push
\* appends exactly one entry at the tail; and the step after a push or pop
\* has taken the lock releases it.
C19_PopNeverWaits ==
    /\ [](qpc[Consumer] = "pop" => ENABLED PopBody)
    /\ [][QueueStep]_vars

\* a pop found the queue empty after an earlier pop had delivered an entry
C19_Witness ==
    /\ ~popOut.ok /\ popOut.source # ""
    /\ qpc[Consumer] = "idle" /\ messages_ = <<>>
    /\ Len(pushOrder) >= 1

(***************************************************************************)
(* Properties of stopping                                                  *)
(***************************************************************************)
\* the entries the accept thread pushed, and those of c's receive thread
AcceptEntries == SelectSeq(pushOrder, LAMBDA e : e.by = 0)
ThreadEntries(c) == SelectSeq(pushOrder, LAMBDA e : e.by = c)

\* no loop begins a second poll after its running flag was cleared
StopPollsBounded ==
    /\ acc.stopPolls <= 1
    /\ \A c \in Conns : conn[c].stopPolls <= 1
    /\ ct.stopSeen <= 1

\* a loop that has exited inserts no Connection and pushes no entry; the
\* connect thread, which has neither statement, writes nothing more
QuietAfterExit ==
    /\ apc \in {"done", "none"}
          => /\ AcceptEntries' = AcceptEntries
             /\ Range(serverClients') \subseteq Range(serverClients)
    /\ \A c \in Conns :
          conn[c].rpc = "done" => ThreadEntries(c)' = ThreadEntries(c)
    /\ cpc = "finished" => ct' = ct

\* C17: a stop is observed without a ready descriptor: once the owner has
\* cleared a loop's running flag, the accept loop, each receive loop and a
\* connect loop in progress begin at most one further poll before they leave,
\* and a loop that has left inserts no further Connection and pushes no
\* further queue entry.
C17_StopObserved == []StopPollsBounded /\ [][QuietAfterExit]_vars

\* each loop has come back from the one poll that was in progress when its
\* flag was cleared: the accept loop is at its loop test, a receive loop and
\* the connect loop have left
C17_Witness ==
    /\ apc = "loop" /\ ~serverAcceptRunning /\ acc.stopPolls = 1
    /\ \E c \in Conns : conn[c].rpc = "exit" /\ conn[c].stopPolls = 1
    /\ cpc = "finished" /\ ct.cause = "stopped" /\ ct.stopSeen = 1

\* C18: stop server always completes: once option 5 has cleared the accept
\* flag, main gets past the joins with the accept thread joined and the
\* server registry empty (or the process has been terminated), whatever the
\* accept thread was doing when the stop began.
C18_StopServerCompletes ==
    (mpc = "stop_close")
        ~> ((mpc = "complete" /\ apc = "none" /\ serverClients = <<>>)
               \/ aborted)

(***************************************************************************)
(* Properties of the registry locks                                        *)
(***************************************************************************)
\* the accept thread is about to call poll or accept
AcceptAtIo == apc \in {"poll", "reject", "accept"}

\* main is about to join the receive threads of a registry that has entries
\* and to clear it, which closes each entry's descriptor in its destructor
MainAtIo == mpc = "stop_join" /\ serverClients # <<>>

\* C20: the server registry lock is never held across I/O: the accept thread
\* does not call poll or accept while it holds serverClientsMutex, and main
\* does not join threads or close descriptors while it holds it.
C20_NoIoUnderLock ==
    /\ serverClientsMutex = "accept" => ~AcceptAtIo
    /\ serverClientsMutex = "main" => ~MainAtIo

(***************************************************************************)
(* Properties of receiving                                                 *)
(***************************************************************************)
\* c's receive thread has been started and has not returned
Alive(c) == conn[c].rpc \in {"start", "loop", "recv", "probe", "exit"}

\* the step is a receive cycle of c's own receive thread
OwnCycle(c) ==
    /\ conn[c].life = "live"
    /\ conn[c].rpc = "recv" /\ conn'[c].rpc \in {"loop", "probe"}

\* C21: a Connection's MessageBuffer is touched only by that Connection's
\* receive thread: every step that changes the buffer of a Connection is a
\* receive cycle of its own receive thread, whatever main, the accept thread
\* and the peer do meanwhile.
C21_CodecOwned ==
    [][\A c \in Conns : conn'[c].buffer # conn[c].buffer => OwnCycle(c)]_vars

\* bytes are buffered in client 1's codec, its receive thread is alive, and
\* main has cleared the registry's flags on its way through stop server
C21_Witness ==
    /\ conn[1].buffer.buffer_ # Empty /\ Alive(1)
    /\ mpc = "stop_join_accept" /\ ~conn[1].running

(***************************************************************************)
(* Properties of a Connection's lifetime                                   *)
(***************************************************************************)
\* c's receive thread returned holding the last reference to c: the
\* destructor ran on the receive thread itself, with the thread not joined
\* (its join of itself ends the process)
ReleasedOnOwnThread(c) ==
    /\ aborted
    /\ conn[c].role = "server" /\ conn[c].life = "live"
    /\ conn[c].rpc = "done" /\ ~conn[c].joined
    /\ c \notin Range(serverClients) /\ aconn # c

\* C22: a Connection is released only once running and connected are false
\* and its receive thread has returned and been joined: no destructor runs
\* while the object's receive thread is executing or unjoined.
C22_ReleasedAfterJoin ==
    \A c \in Conns :
        /\ ~ReleasedOnOwnThread(c)
        /\ conn[c].life = "destroyed"
              => /\ ~conn[c].running /\ ~conn[c].connected
                 /\ conn[c].rpc = "done" /\ conn[c].joined

(***************************************************************************)
(* Properties of the ids                                                   *)
(***************************************************************************)
\* the ids of a registry's entries increase in insertion order
IdsIncrease(reg) ==
    \A i, j \in DOMAIN reg : i < j => conn[reg[i]].id < conn[reg[j]].id

\* an object of this role is created in slot c by the step
Created(c, role) ==
    conn[c].life = "none" /\ conn'[c].life = "live" /\ conn'[c].role = role

\* how the counters and the ids move in one step
IdsStep ==
    /\ \A c \in Conns :
          Created(c, "server")
             => conn'[c].id = nextClientId /\ nextClientId' = nextClientId + 1
    /\ (serverSocket = "null" /\ serverSocket' # "null") => nextClientId' = 1
    /\ nextClientId' < nextClientId => serverSocket = "null"
    /\ nextClientConnectionId' >= nextClientConnectionId
    /\ \A c \in Conns :
          Created(c, "client")
             => /\ conn'[c].id < nextClientConnectionId
                /\ \A d \in Conns :
                      conn[d].role = "client" => conn[d].id < conn'[c].id

C24_WireFormat ==
    (sp.fn = "sendFramedMessage" /\ sp.sock = "valid"
     /\ sp.msg.size # Wide(0, 0))
        => /\ ntohlWide(sp.frame.header) = sp.msg.size
           /\ sp.frame.payload = sp.msg.size
           /\ sp.pc = "done" => sp.polled
           /\ (sp.pc = "done" /\ sp.result)
                 => /\ sp.accepted.header = sp.frame.header
                    /\ sp.accepted.payload = sp.msg.size

\* C25: under the receive loop (one read of at most 8192 bytes, then one
\* extractMessage per cycle) and a stream of well-formed frames, a
\* connection's codec never buffers more than one largest frame and one read:
\* 1,048,576 + 4 + 8192 bytes.
C25_BufferBounded ==
    \A c \in Conns : BLen(conn[c].buffer.buffer_) <= 1024 * 1024 + 4 + 8192

\* C26: after any sequence of addData, extractMessage and clear calls the
\* cursor is between 0 and the length of the buffered bytes, and the number
\* of available bytes extractMessage computed was not negative.
C26_CursorWithinLength ==
    /\ 0 <= mb.readPos_ /\ mb.readPos_ <= BLen(mb.buffer_)
    /\ last.op = "extract" => last.avail >= 0

\* a clear() call dropped unread bytes after a frame had been extracted
C26_Witness ==
    /\ last.op = "clear" /\ last.avail > 0
    /\ delivered # <<>> /\ ~wellFormed
    /\ mb = NewMessageBuffer

\* line 54: the test compactIfNeeded makes
CompactionDue(b) ==
    b.readPos_ > 0
    /\ (b.readPos_ > BLen(b.buffer_) \div 2 \/ BLen(b.buffer_) > 1024 * 1024)

\* C27 as stated: in the state in which addData or extractMessage returns,
\* whether or not a frame was extracted, it is never the case that cursor > 0
\* and (cursor > length/2 or length > 1,048,576).
C27_CompactedOnReturn ==
    last.op \in {"add", "extract"} => ~CompactionDue(mb)

\* C27, amended: compaction is applied before every append and after every
\* successful extraction: when extractMessage returns true the compaction
\* test is false, a failed extractMessage leaves the buffer as it was or
\* empty, and a cursor that is not 0 when addData returns is the cursor of a
\* buffer for which the test was false before the bytes were appended.
C27_CompactionPoints ==
    /\ [](last.op = "extract" /\ last.ok => ~CompactionDue(mb))
    /\ [][/\ (last'.op = "extract" /\ ~last'.ok)
                => mb' \in {mb, NewMessageBuffer}
          /\ (adds' = adds + 1 /\ mb'.readPos_ > 0)
                => ~CompactionDue(mb) /\ mb'.readPos_ = mb.readPos_]_vars

\* addData has returned with the cursor at 5 and more than 1,048,576 bytes
\* buffered
C27_Witness ==
    /\ last.op = "add"
    /\ mb.readPos_ = 5 /\ BLen(mb.buffer_) > 1024 * 1024

\* the bytes of a buffer not yet consumed
Unread(b) == BDrop(b.buffer_, b.readPos_)

\* connection c's receive thread completes a receiveFramedMessage call that
\* read bytes
ReadCycle(c) ==
    /\ conn[c].rpc = "recv" /\ conn'[c].rpc # "recv"
    /\ BLen(conn'[c].inbox) < BLen(conn[c].inbox)

\* C28: a receive cycle that reads bytes makes one extraction: it pushes at
\* most one payload, the first complete frame of the unread bytes, also when
\* the bytes read complete several frames; the bytes behind that frame stay
\* buffered, and when nothing is pushed all bytes stay buffered unless the
\* header at the cursor declares more than 1,048,576.
C28_OneExtractionPerCycle ==
    [][\A c \in Conns : ReadCycle(c) =>
          LET read == BTake(conn[c].inbox,
                            BLen(conn[c].inbox) - BLen(conn'[c].inbox))
              before == BCat(Unread(conn[c].buffer), read)
              after == Unread(conn'[c].buffer)
          IN  \/ /\ Len(pushOrder') = Len(pushOrder) + 1
                 /\ LET e == pushOrder'[Len(pushOrder')]
                    IN  /\ e.by = c /\ e.source = "Server"
                        /\ e.message.payload = conn'[c].message
                        /\ before = BCat(framed(e.message.payload), after)
              \/ /\ pushOrder' = pushOrder
                 /\ \/ after = before
                    \/ /\ BLen(before) >= 4
                       /\ ntohl(before, 0) > 1024 * 1024
                       /\ after = Empty]_vars

\* one read brought two frames: the first payload was pushed and the whole
\* second frame is still buffered
C28_Witness ==
    \E c \in Conns :
        /\ conn[c].rpc = "loop" /\ conn[c].inbox = Empty
        /\ conn[c].message = Fill(65, 1)
        /\ Unread(conn[c].buffer) = framed(Fill(66, 2))
        /\ Len(Pushed(c, "[SERVER] receives [CLIENT")) = 1

\* the accept thread's accept call returns an error on the open listener
AcceptFails(e) ==
    /\ apc \in {"reject", "accept"}
    /\ serverSocket = "open" /\ acc'.last = e /\ apc' # apc

\* C29: on both branches of the accept loop, at the ceiling and below it, an
\* accept failure other than would-block makes the loop exit and a
\* would-block failure makes it loop again.
C29_AcceptErrorsFatal ==
    [][\A e \in AcceptErrnos : AcceptFails(e) =>
          apc' = IF e = "EAGAIN" THEN "loop" ELSE "done"]_vars

\* connection c's receive cycle reads bytes that leave a header declaring
\* more than 1,048,576 at the cursor
OversizeCycle(c) ==
    /\ ReadCycle(c)
    /\ LET read == BTake(conn[c].inbox,
                         BLen(conn[c].inbox) - BLen(conn'[c].inbox))
           before == BCat(Unread(conn[c].buffer), read)
       IN  BLen(before) >= 4 /\ ntohl(before, 0) > 1024 * 1024

\* C30: a receive cycle in which extractMessage discards the buffer for an
\* oversized length changes the decode state only: the buffer is empty, the
\* connection's running and connected flags, its descriptor and the registry
\* are as before, nothing is enqueued, and the thread goes on to its
\* liveness probe.
C30_ViolationOnlyDecodeState ==
    [][\A c \in Conns : OversizeCycle(c) =>
          /\ conn'[c].buffer = NewMessageBuffer
          /\ conn'[c].running = conn[c].running
          /\ conn'[c].connected = conn[c].connected
          /\ conn'[c].fd = conn[c].fd
          /\ conn'[c].life = conn[c].life
          /\ serverClients' = serverClients
          /\ messages_' = messages_ /\ pushOrder' = pushOrder
          /\ conn'[c].rpc = "probe"]_vars

\* an oversized header and a whole frame behind it were read and discarded;
\* the connection is registered, running and connected, at its probe
C30_Witness ==
    \E c \in Conns :
        /\ conn[c].rpc = "probe" /\ conn[c].sends = 1
        /\ conn[c].inbox = Empty /\ conn[c].buffer = NewMessageBuffer
        /\ conn[c].running /\ conn[c].connected /\ conn[c].fd = "open"
        /\ c \in Range(serverClients)
        /\ Pushed(c, "[SERVER] receives [CLIENT") = <<>>

\* connection c's receive cycle reads bytes that leave a header of four zero
\* bytes at the cursor
ZeroCycle(c) ==
    /\ ReadCycle(c)
    /\ LET read == BTake(conn[c].inbox,
                         BLen(conn[c].inbox) - BLen(conn'[c].inbox))
           before == BCat(Unread(conn[c].buffer), read)
       IN  BLen(before) >= 4 /\ ntohl(before, 0) = 0

\* C31: when the 4 header bytes at the cursor decode to 0, extractMessage
\* succeeds with an empty payload and consumes exactly those 4 bytes, and the
\* receive loop pushes the empty payload like any other frame.
C31_ZeroLengthFrame ==
    [][\A c \in Conns : ZeroCycle(c) =>
          LET read == BTake(conn[c].inbox,
                            BLen(conn[c].inbox) - BLen(conn'[c].inbox))
              before == BCat(Unread(conn[c].buffer), read)
          IN  /\ conn'[c].message = Empty
              /\ Unread(conn'[c].buffer) = BDrop(before, 4)
              /\ Len(pushOrder') = Len(pushOrder) + 1
              /\ LET e == pushOrder'[Len(pushOrder')]
                 IN  /\ e.by = c /\ e.source = "Server"
                     /\ e.message.text = "[SERVER] receives [CLIENT"
                     /\ e.message.payload = Empty
              /\ conn'[c].rpc = "loop"]_vars

\* a zero header was read with a frame behind it: an empty payload was pushed
\* and the frame behind the header is what is left unread
C31_Witness ==
    \E c \in Conns :
        /\ conn[c].rpc = "loop" /\ conn[c].message = Empty
        /\ Unread(conn[c].buffer) = framed(Fill(65, 1))
        /\ Len(Pushed(c, "[SERVER] receives [CLIENT")) = 1
        /\ Pushed(c, "[SERVER] receives [CLIENT")[1].message.payload = Empty

\* C32: a server connection whose receive loop has exited with
\* connected = false after its peer disconnected is eventually removed from
\* the registry by a purge, without a stop-server.
C32_DisconnectedPurged ==
    \A c \in Conns :
        (/\ conn[c].role = "server" /\ conn[c].rpc = "done"
         /\ ~conn[c].connected /\ c \in Range(serverClients))
            ~> (c \notin Range(serverClients))

\* a whole frame lies at the cursor of connection c's codec
FrameBuffered(c) ==
    LET u == Unread(conn[c].buffer)
    IN  /\ BLen(u) >= 4
        /\ ntohl(u, 0) <= 1024 * 1024
        /\ BLen(u) >= 4 + ntohl(u, 0)

\* C33: a complete frame that has been read into a connection's codec is
\* eventually pushed to the queue, so that no complete frame is left at the
\* cursor, unless the connection stops running or being connected; also when
\* the peer sends nothing after it.  (A frame leaves the buffer only by the
\* extraction that precedes its push.)
C33_BufferedFrameDelivered ==
    \A c \in Conns :
        FrameBuffered(c)
            ~> (~FrameBuffered(c) \/ ~conn[c].running \/ ~conn[c].connected)

\* the payloads connection c's receive thread has pushed, in queue order
PayloadsPushed(c) ==
    LET p == Pushed(c, "[SERVER] receives [CLIENT")
    IN  [i \in 1..Len(p) |-> p[i].message.payload]

\* C34: while the peer of a connection has sent nothing but frames, the
\* payloads the connection's receive loop has pushed are, in order, a prefix
\* of the payloads the peer framed and sent: none duplicated, altered,
\* reordered or skipped.
C34_DeliveryOrder ==
    \A c \in Conns :
        conn[c].framesOnly => IsPrefix(PayloadsPushed(c), conn[c].sentFrames)

\* the peer sent two frames in one piece and later a third; the first two
\* payloads have been pushed
C34_Witness ==
    \E c \in Conns :
        /\ conn[c].framesOnly
        /\ conn[c].sentFrames = <<Fill(65, 1), Fill(66, 2), Fill(65, 1)>>
        /\ PayloadsPushed(c) = <<Fill(65, 1), Fill(66, 2)>>

\* C35: when a server connection's receive thread pushes an entry (a payload
\* or "Client disconnected"), the queue has already been given the
\* "Client <id> connected" notification of that connection.
C35_ConnectedFirst ==
    [][\A c \in Conns :
          (/\ Len(pushOrder') = Len(pushOrder) + 1
           /\ pushOrder'[Len(pushOrder')].by = c
           /\ conn[c].role = "server")
             => \E j \in 1..Len(pushOrder) :
                   /\ pushOrder[j].by = 0
                   /\ pushOrder[j].message.text = "Client connected"
                   /\ pushOrder[j].message.id = conn[c].id]_vars

\* C36: no accepted descriptor is leaked: an accept below the ceiling that
\* returns a descriptor hands it to a Connection object (which the accept
\* loop then inserts into the registry), also when running was cleared
\* between the poll and the accept; at the ceiling the descriptor is closed
C36_NoDescriptorLeaked ==
    [][(apc = "accept" /\ apc' # apc /\ backlog' = backlog - 1)
          => (aconn' # 0 /\ conn'[aconn'].life = "live")]_vars

\* C37: at most one connect attempt is outstanding: while the connect thread
\* of an attempt has not been joined, no step replaces the pending id or the
\* pending descriptor of that attempt, and the process keeps running
C37_OneAttemptOutstanding ==
    [][(cpc # "none" /\ cpc' # "none")
          => /\ pendingConnectionId' = pendingConnectionId
             /\ pendingClientSocket' = pendingClientSocket
             /\ aborted' = aborted]_vars

\* C38: on every path of clientConnectThread the success flag is written
\* before the completion flag: whenever connectComplete is true while the
\* attempt is pending, connectSuccess holds the outcome the thread decided
\* and has been assigned once; and the completion handler adds a client
\* Connection only when that outcome is success
C38_SuccessBeforeComplete ==
    [][/\ (connectComplete' /\ cpc' # "none")
             => /\ pendingConnectSuccess' = ct'.result
                /\ ct'.successWrites = 1
       /\ (Len(clientConnections') > Len(clientConnections))
             => connectComplete /\ pendingConnectSuccess /\ ct.result]_vars

\* the completion handler has taken up an attempt that succeeded in poll and
\* has made the client Connection
C38_Witness ==
    /\ ct.cause = "writable" /\ ct.result /\ cpc = "none"
    /\ clientConnections # <<>>
    /\ ~connectComplete

\* C39: every access to a registry vector, reads included, happens under
\* the registry's lock: main never reads the server registry (the status
\* lines of the menu) while the accept thread is inside its critical
\* section, inserting or purging
C39_ReadsUnderLock ==
    [][(mpc = "menu" /\ mpc' = "input") => serverClientsMutex # "accept"]_vars

\* C40: the last reference to a Connection is never released on its own
\* receive thread: when a server receive thread returns and drops the
\* reference it was started with, the registry or the accept loop's local
\* still holds the object, so ~ClientConnection never joins the thread it
\* runs on
C40_NoSelfJoin ==
    [][\A c \in Conns :
          (conn[c].role = "server" /\ conn[c].rpc = "exit"
              /\ conn'[c].rpc = "done")
             => (c \in Range(serverClients) \/ aconn = c)]_vars

(***************************************************************************)
(* Specifications                                                          *)
(***************************************************************************)
Init == InitCodec /\ InitQueue /\ InitNet /\ InitClient

SpecCodec == Init /\ [][NextCodec]_vars

SpecClear == Init /\ [][NextClear]_vars

SpecQueue == Init /\ [][NextQueue]_vars

SpecServer == Init /\ [][NextServer]_vars

SpecAcceptErrors == Init /\ [][NextAcceptErrors]_vars

\* the server with the menu being displayed
NextMenu == NextServer \/ MainDisplayMenu

SpecMenu == Init /\ [][NextMenu]_vars

SpecClient == Init /\ [][NextClient]_vars

SpecSend == Init /\ [][NextSend]_vars

\* the sending thread is scheduled
FairSend == SpecSend /\ WF_vars(sendFramedMessage)

\* the sender on payloads of any length
SpecWide == Init /\ [][NextWide]_vars

InitConnectOnly == InitCodec /\ InitQueue /\ InitNet /\ InitConnect

SpecConnect == InitConnectOnly /\ [][NextConnect]_vars

\* the connect thread is scheduled
FairConnect == SpecConnect /\ WF_vars(clientConnectThread)

\* the server with one outgoing connect: all the loops a stop has to end
NextStop ==
    \/ NextServer
    \/ MainConnect
    \/ clientConnectThread
    \/ OwnerStopsConnect

SpecStop == Init /\ [][NextStop]_vars

InitReceiving == InitCodec /\ InitReceive /\ InitClient

SpecReceive == InitReceiving /\ [][NextReceive]_vars

SpecFlood == InitReceiving /\ [][NextFlood]_vars

\* the main thread's steps
MainLoop == MainServer \/ MainPurgeClient \/ MainComplete

\* the server with every thread scheduled: the accept thread, each receive
\* thread and main take a step they are able to take
FairStopServer ==
    /\ SpecServer
    /\ WF_vars(serverAcceptThread)
    /\ \A c \in Conns : WF_vars(serverReceiveThread(c))
    /\ WF_vars(MainLoop)

\* the server while nobody stops it (option 5 is not chosen)
NextServing ==
    \/ serverAcceptThread
    \/ \E c \in Conns : serverReceiveThread(c)
    \/ MainPop \/ MainPurgeServer \/ MainPurgeClient \/ MainNoInput
    \/ MainStartServer \/ MainComplete
    \/ PeerConnect
    \/ \E c \in Conns : PeerClose(c)

\* the threads are scheduled: a receive thread or the accept thread that can
\* take a step eventually takes one; the main thread waits on the user
FairServing ==
    /\ Init /\ [][NextServing]_vars
    /\ \A c \in Conns : WF_vars(serverReceiveThread(c))
    /\ WF_vars(serverAcceptThread)

\* the main loop without the user's input: pop, the two purges, the sleep
MainIdle ==
    \/ MainPop \/ MainPurgeServer \/ MainPurgeClient \/ MainNoInput
    \/ MainComplete

\* the server left alone by the user: all threads are scheduled, the main
\* loop among them, and no option is chosen after the server was started
FairPurge ==
    /\ Init /\ [][NextServing]_vars
    /\ \A c \in Conns : WF_vars(serverReceiveThread(c))
    /\ WF_vars(serverAcceptThread)
    /\ WF_vars(MainIdle)

\* the steps of a server receive thread other than its receive call
SrvRecvOther(c) ==
    SrvRecvStart(c) \/ SrvRecvLoop(c) \/ SrvRecvProbe(c) \/ SrvRecvExit(c)

\* the receive threads are scheduled; the peer and the user act when they
\* like.  SrvRecvCycle(c) is enabled exactly while the thread is at its
\* receive call and every step of it leaves that position, so its weak
\* fairness is written with the position.
FairReceive ==
    /\ SpecReceive
    /\ \A c \in Conns : WF_vars(SrvRecvOther(c))
    /\ \A c \in Conns : []<>(conn[c].rpc # "recv")

====
